---- MODULE Spec2Model ----
(***************************************************************************)
(* Model of initiator.py: the ADF pipeline activity extractor              *)
(* (ADFPipelineDocGenerator), the activity detail formatters (ParseXxx),   *)
(* the format-instruction resolver and the tabular writer (ExcelUtils).    *)
(***************************************************************************)
EXTENDS Integers, Sequences, FiniteSets, TLC

VARIABLES
    doc,                 \* json_data: the parsed input document
    pc,                  \* position of the module main flow
    res_idx,             \* index of the next element of `resources` (envelope mode)
    stack,               \* call stack of recursive_parsing[_Individual]
    pipeline_name_flag,  \* ADFPipelineDocGenerator.pipeline_name_flag
    pipeline_name,       \* ADFPipelineDocGenerator.pipeline_name
    table_data,          \* ADFPipelineDocGenerator.table_data
    j,                   \* index of the next row of table_data the main flow writes
    workbook,            \* ExcelUtils.workbook: "none" (never opened), "open", "closed" (None again)
    current_sheet,       \* ExcelUtils.current_sheet: 0 for None, else the number of the worksheet
    sheets,              \* worksheets added to the workbook so far
    offset,              \* ExcelUtils._offset
    cells,               \* write_cell calls made so far, in order
    instructions,        \* the caller's formatting-instruction dictionary
    ncalls,              \* calls made on the writer / resolver so far
    last,                \* the last call: its arguments, what it wrote and returned
    xl_rows              \* the rows of the sheet read_file selected: None before any read_file

vars == <<doc, pc, res_idx, stack, pipeline_name_flag, pipeline_name, table_data, j,
          workbook, current_sheet, sheets, offset, cells, instructions, ncalls, last,
          xl_rows>>

extractorVars == <<doc, res_idx, stack, pipeline_name_flag, pipeline_name, table_data>>
writerVars == <<workbook, current_sheet, sheets, offset, cells>>

-----------------------------------------------------------------------------
(* Python values.  Every value is a record tagged by its Python type.      *)

JStr(s) == [t |-> "str", s |-> s]
JNum(n) == [t |-> "int", n |-> n]
JNull == [t |-> "NoneType"]
JObj(kv) == [t |-> "dict", kv |-> kv]       \* kv: sequence of <<key, value>>, insertion order
JList(items) == [t |-> "list", items |-> items]

\* bool(v)
Truthy(v) ==
    CASE v.t = "str" -> v.s # ""
      [] v.t = "int" -> v.n # 0
      [] v.t = "NoneType" -> FALSE
      [] v.t = "dict" -> Len(v.kv) > 0
      [] v.t = "list" -> Len(v.items) > 0

\* k in d
HasKey(d, k) == \E i \in 1..Len(d.kv) : d.kv[i][1] = k

\* d.get(k, default)
Get(d, k, default) ==
    IF HasKey(d, k)
    THEN d.kv[CHOOSE i \in 1..Len(d.kv) : d.kv[i][1] = k][2]
    ELSE default

\* list(d): the keys in insertion order
Keys(d) == [i \in 1..Len(d.kv) |-> d.kv[i][1]]

\* x in s, for strings
Contains(s, x) ==
    \E i \in 1..(Len(s) - Len(x) + 1) : SubSeq(s, i, i + Len(x) - 1) = x

\* sep.join(parts), parts a sequence of strings
RECURSIVE Join(_, _)
Join(sep, parts) ==
    IF Len(parts) = 0 THEN ""
    ELSE IF Len(parts) = 1 THEN parts[1]
    ELSE parts[1] \o sep \o Join(sep, Tail(parts))

\* repr(v)
RECURSIVE PyRepr(_)
PyRepr(v) ==
    CASE v.t = "str" -> "'" \o v.s \o "'"
      [] v.t = "int" -> ToString(v.n)
      [] v.t = "NoneType" -> "None"
      [] v.t = "dict" ->
            "{" \o Join(", ", [i \in 1..Len(v.kv) |->
                        "'" \o v.kv[i][1] \o "': " \o PyRepr(v.kv[i][2])]) \o "}"
      [] v.t = "list" ->
            "[" \o Join(", ", [i \in 1..Len(v.items) |-> PyRepr(v.items[i])]) \o "]"

\* str(v), which is also what '{}'.format(v) renders
PyStr(v) == IF v.t = "str" THEN v.s ELSE PyRepr(v)

\* Optional string: <<>> is None, <<s>> is the string s
None == <<>>
Some(s) == <<s>>
\* a or b, for an optional string a and a string b
OrElse(a, b) == IF a # None /\ a[1] # "" THEN a[1] ELSE b

\* Outcome of a call: it returned ret (None or a string) or it raised
Returned(ret) == [raised |-> FALSE, ret |-> ret]
Raised == [raised |-> TRUE, ret |-> None]

-----------------------------------------------------------------------------
(* Activity detail formatters.                                             *)

\* The parameter loop of ParseLookup.parse and ParseSPROC.parse:
\*   for param in param_obj: val = param_obj.get(param).get('value') ...
\* Returns the joined param_details, or raises.
ParamEntryValueOnly(k, entry) ==
    LET val == Get(entry, "value", JNull)
    IN  IF val.t = "dict" THEN PyStr(Get(val, "value", JNull)) ELSE PyStr(val)

ParamEntry(k, entry) ==
    LET val == Get(entry, "value", JNull)
    IN  k \o ": " \o (IF val.t = "dict" THEN PyStr(Get(val, "value", JNull)) ELSE PyStr(val))

StoredProcParams(param_obj) ==
    CASE param_obj.t = "str" -> IF param_obj.s = "" THEN Returned(Some("")) ELSE Raised
      [] param_obj.t = "list" -> IF Len(param_obj.items) = 0 THEN Returned(Some("")) ELSE Raised
      [] param_obj.t = "dict" ->
            IF \E i \in 1..Len(param_obj.kv) : param_obj.kv[i][2].t # "dict"
            THEN Raised
            ELSE Returned(Some(Join(",", [i \in 1..Len(param_obj.kv) |->
                                ParamEntry(param_obj.kv[i][1], param_obj.kv[i][2])])))
      [] OTHER -> Raised

ParseLookup(input_data) ==
    LET typeProperties == Get(input_data, "typeProperties", JStr(""))
    IN  IF ~Truthy(typeProperties) THEN Returned(None)
        ELSE IF typeProperties.t # "dict" THEN Raised
        ELSE LET source == Get(typeProperties, "source", JStr(""))
             IN  IF ~Truthy(source) THEN Returned(None)
                 ELSE IF source.t # "dict" THEN Raised
                 ELSE LET sproc_name == Get(source, "sqlReaderStoredProcedureName", JStr(""))
                          params == StoredProcParams(Get(source, "storedProcedureParameters", JStr("")))
                      IN  IF params.raised THEN Raised
                          ELSE Returned(Some(PyStr(sproc_name) \o " ,    Parameters: " \o params.ret[1]))

ParseIfCondition(input_data) ==
    LET typeProperties == Get(input_data, "typeProperties", JStr(""))
    IN  IF ~Truthy(typeProperties) THEN Returned(None)
        ELSE IF typeProperties.t # "dict" THEN Raised
        ELSE LET expression == Get(typeProperties, "expression", JStr(""))
             IN  IF ~Truthy(expression) THEN Returned(None)
                 ELSE IF expression.t # "dict" THEN Raised
                 ELSE Returned(Some("Expression:     " \o PyStr(Get(expression, "value", JStr("")))))

ParseSPROC(input_data) ==
    LET typeProperties == Get(input_data, "typeProperties", JStr(""))
    IN  IF ~Truthy(typeProperties) THEN Returned(None)
        ELSE IF typeProperties.t # "dict" THEN Raised
        ELSE LET sproc_name == Get(typeProperties, "storedProcedureName", JStr(""))
                 params == StoredProcParams(Get(typeProperties, "storedProcedureParameters", JStr("")))
             IN  IF params.raised THEN Raised
                 ELSE Returned(Some("Stored procedure name " \o PyStr(sproc_name)
                                    \o " ,    Parameters: " \o params.ret[1]))

ParseWebActivity(input_data) ==
    LET typeProperties == Get(input_data, "typeProperties", JStr(""))
    IN  IF ~Truthy(typeProperties) THEN Raised      \* url_name is unbound at the return
        ELSE IF typeProperties.t # "dict" THEN Raised
        ELSE LET url_name == Get(typeProperties, "url", JStr(""))
                 method_name == Get(typeProperties, "method", JStr(""))
                 header_name == Get(typeProperties, "header", JStr(""))
                 Body_properties == Get(typeProperties, "body", JStr(""))
             IN  IF Truthy(header_name) /\ header_name.t # "dict" THEN Raised
                 ELSE Returned(Some("Http request URL: " \o PyStr(url_name)
                                    \o " \n\n Method Name : " \o PyStr(method_name)
                                    \o " \n\n Body properties : " \o PyStr(Body_properties)))

ParseWaitActivity(input_data) ==
    LET typeProperties == Get(input_data, "typeProperties", JStr(""))
    IN  IF ~Truthy(typeProperties) THEN Returned(None)
        ELSE IF typeProperties.t # "dict" THEN Raised
        ELSE Returned(Some("Wait time in Seconds:  "
                           \o PyStr(Get(typeProperties, "waitTimeInSeconds", JStr("")))))

ParseDeleteActivity(input_data) ==
    LET typeProperties == Get(input_data, "typeProperties", JStr(""))
    IN  IF ~Truthy(typeProperties) THEN Returned(None)
        ELSE IF typeProperties.t # "dict" THEN Raised
        ELSE LET dataset_name == Get(typeProperties, "dataset", JStr(""))
                 store_settings == Get(typeProperties, "storeSettings", JStr(""))
             IN  IF dataset_name.t # "dict" THEN Raised      \* ''.get(...)
                 ELSE IF ~Truthy(store_settings) THEN Returned(None)
                 ELSE IF store_settings.t # "dict" THEN Raised
                 ELSE Returned(Some("DataSet name-" \o PyStr(Get(dataset_name, "referenceName", JStr("")))
                                    \o " \nFileName-"
                                    \o PyStr(Get(store_settings, "wildcardFileName", JStr("")))))

ParseExecutePipeline(input_data) ==
    LET typeProperties == Get(input_data, "typeProperties", JStr(""))
    IN  IF ~Truthy(typeProperties) THEN Returned(None)
        ELSE IF typeProperties.t # "dict" THEN Raised
        ELSE LET pipeline == Get(typeProperties, "pipeline", JStr(""))
             IN  IF ~Truthy(pipeline) THEN Returned(None)
                 ELSE IF pipeline.t # "dict" THEN Raised
                 ELSE Returned(Some("Child pipeline Name : "
                                    \o PyStr(Get(pipeline, "referenceName", JStr("")))))

\* inputs[0].get('referenceName', '') under `if input_data.get('inputs', '')`:
\* None when the name stays unbound, raises when inputs[0] has no .get
FirstReferenceName(refs) ==
    IF ~Truthy(refs) THEN Returned(None)
    ELSE IF refs.t = "list" /\ refs.items[1].t = "dict"
         THEN Returned(Some(PyStr(Get(refs.items[1], "referenceName", JStr("")))))
         ELSE Raised

CopyText(inref, outref, v_source, v_foldername) ==
    IF inref.ret = None \/ outref.ret = None THEN Raised     \* unbound local at the format call
    ELSE Returned(Some("Input DataSet : " \o inref.ret[1] \o " \nOutput DataSet : " \o outref.ret[1]
                       \o "\n File name : " \o PyStr(v_source)
                       \o "\nFolder Name or Path:" \o PyStr(v_foldername)))

ParseCopyActivity(input_data) ==
    LET typeProperties == Get(input_data, "typeProperties", JStr(""))
        inref == FirstReferenceName(Get(input_data, "inputs", JStr("")))
        outref == FirstReferenceName(Get(input_data, "outputs", JStr("")))
    IN  IF inref.raised \/ outref.raised THEN Raised
        ELSE IF ~Truthy(typeProperties) THEN Returned(None)
        ELSE IF typeProperties.t # "dict" THEN Raised
        ELSE LET source == Get(typeProperties, "source", JStr(""))
             IN  IF ~Truthy(source) THEN Returned(None)
                 ELSE IF source.t # "dict" THEN Raised
                 ELSE LET type == Get(source, "type", JStr(""))
                          storeSettings == Get(source, "storeSettings", JStr(""))
                          sprocName == Get(source, "sqlReaderStoredProcedureName", JStr(""))
                      IN  IF type # JStr("SqlDWSink") /\ Truthy(storeSettings)
                             /\ storeSettings.t # "dict"
                          THEN Raised
                          ELSE IF type # JStr("SqlDWSink") /\ Truthy(storeSettings)
                                  /\ Truthy(Get(storeSettings, "wildcardFileName", JStr("")))
                          THEN CopyText(inref, outref,
                                        Get(storeSettings, "wildcardFileName", JStr("")),
                                        Get(storeSettings, "wildcardFolderPath", JStr("")))
                          ELSE IF type = JStr("SqlDWSource") /\ Truthy(sprocName)
                          THEN CopyText(inref, outref, sprocName, JStr(""))
                          ELSE Returned(None)

\* for i in parts: acc = i + sep + acc
RECURSIVE PrependAll(_, _, _)
PrependAll(parts, sep, acc) ==
    IF Len(parts) = 0 THEN acc
    ELSE PrependAll(Tail(parts), sep, parts[1] \o sep \o acc)

\* iter(s) of a string: its characters
Chars(s) == [i \in 1..Len(s) |-> SubSeq(s, i, i)]

NotebookParam(k, val) ==
    IF val.t = "dict" THEN k \o " : " \o PyStr(Get(val, "value", JNull))
    ELSE k \o " : " \o val.s

NotebookParams(param_obj) ==
    CASE param_obj.t = "str" -> IF param_obj.s = "" THEN Returned(Some("")) ELSE Raised
      [] param_obj.t = "list" -> IF Len(param_obj.items) = 0 THEN Returned(Some("")) ELSE Raised
      [] param_obj.t = "dict" ->
            IF \E i \in 1..Len(param_obj.kv) : param_obj.kv[i][2].t \notin {"dict", "str"}
            THEN Raised                                   \* str + non-str
            ELSE Returned(Some(PrependAll([i \in 1..Len(param_obj.kv) |->
                                   NotebookParam(param_obj.kv[i][1], param_obj.kv[i][2])],
                               ",\n", "")))
      [] OTHER -> Raised

ParseNotebookActivity(input_data) ==
    LET typeProperties == Get(input_data, "typeProperties", JStr(""))
    IN  IF ~Truthy(typeProperties) THEN Raised      \* notebook_path is unbound at the return
        ELSE IF typeProperties.t # "dict" THEN Raised
        ELSE LET notebook_path == Get(typeProperties, "notebookPath", JStr(""))
                 params == NotebookParams(Get(typeProperties, "baseParameters", JStr("")))
             IN  IF params.raised THEN Raised
                 ELSE Returned(Some("Notebook path: " \o PyStr(notebook_path)
                                    \o " \n\n Paramerters: " \o params.ret[1]))

MetadataAttributes(attr_obj) ==
    CASE attr_obj.t = "str" -> Returned(Some(PrependAll(Chars(attr_obj.s), " , ", "")))
      [] attr_obj.t = "dict" -> Returned(Some(PrependAll(Keys(attr_obj), " , ", "")))
      [] attr_obj.t = "list" ->
            IF \E i \in 1..Len(attr_obj.items) : attr_obj.items[i].t # "str"
            THEN Raised
            ELSE Returned(Some(PrependAll([i \in 1..Len(attr_obj.items) |-> attr_obj.items[i].s],
                                          " , ", "")))
      [] OTHER -> Raised

ParseGetMetadataActivity(input_data) ==
    LET typeProperties == Get(input_data, "typeProperties", JStr(""))
    IN  IF ~Truthy(typeProperties) THEN Returned(None)
        ELSE IF typeProperties.t # "dict" THEN Raised
        ELSE LET ds == Get(typeProperties, "dataset", JNull)
                 attrs == MetadataAttributes(Get(typeProperties, "fieldList", JStr("")))
             IN  IF ds.t # "dict" THEN Raised
                 ELSE IF attrs.raised THEN Raised
                 ELSE Returned(Some("Dataset name: " \o PyStr(Get(ds, "referenceName", JStr("")))
                                    \o " \n\n Metadata attributes: " \o attrs.ret[1]))

\* ADFPipelineDocGenerator.parse_task_details: dispatch by equality on task_type
parse_task_details(task_type, obj) ==
    CASE task_type = JStr("Lookup") -> ParseLookup(obj)
      [] task_type = JStr("IfCondition") -> ParseIfCondition(obj)
      [] task_type = JStr("SqlServerStoredProcedure") -> ParseSPROC(obj)
      [] task_type = JStr("WebActivity") -> ParseWebActivity(obj)
      [] task_type = JStr("Wait") -> ParseWaitActivity(obj)
      [] task_type = JStr("Delete") -> ParseDeleteActivity(obj)
      [] task_type = JStr("ExecutePipeline") -> ParseExecutePipeline(obj)
      [] task_type = JStr("Copy") -> ParseCopyActivity(obj)
      [] task_type = JStr("DatabricksNotebook") -> ParseNotebookActivity(obj)
      [] task_type = JStr("GetMetadata") -> ParseGetMetadataActivity(obj)
      [] OTHER -> Returned(None)

DependsOnEntryNoConditions(obj) ==
    LET activity == Get(obj, "activity", JStr(""))
    IN  IF activity.t # "str" THEN Raised ELSE Returned(Some(activity.s \o ":"))

\* ADFPipelineDocGenerator.parse_dependsOn, line 971: one element of the list
DependsOnEntry(obj) ==
    LET activity == Get(obj, "activity", JStr(""))
        conds == Get(obj, "dependencyConditions", JList(<<>>))
    IN  IF activity.t # "str" THEN Raised
        ELSE CASE conds.t = "list" ->
                    IF \E i \in 1..Len(conds.items) : conds.items[i].t # "str" THEN Raised
                    ELSE Returned(Some(activity.s \o ":"
                            \o Join(",", [i \in 1..Len(conds.items) |-> conds.items[i].s])))
               [] conds.t = "str" -> Returned(Some(activity.s \o ":" \o Join(",", Chars(conds.s))))
               [] conds.t = "dict" -> Returned(Some(activity.s \o ":" \o Join(",", Keys(conds))))
               [] OTHER -> Raised

\* ADFPipelineDocGenerator.parse_dependsOn
\* the elements a `for obj in dependency_list` visits that are dicts
DictElements(dependency_list) ==
    IF dependency_list.t = "list"
    THEN SelectSeq(dependency_list.items, LAMBDA e : e.t = "dict")
    ELSE <<>>                   \* the keys of a dict and the characters of a str are no dicts

parse_dependsOn(dependency_list) ==
    IF ~Truthy(dependency_list) THEN Returned(None)
    ELSE IF dependency_list.t = "int" THEN Raised      \* not iterable
    ELSE LET objs == DictElements(dependency_list)
             parts == [i \in 1..Len(objs) |-> DependsOnEntry(objs[i])]
         IN  IF \E i \in 1..Len(objs) : parts[i].raised THEN Raised
             ELSE Returned(Some(Join(",", [i \in 1..Len(objs) |-> parts[i].ret[1]])))

-----------------------------------------------------------------------------
(* Activity extractor: recursive_parsing_Individual and recursive_parsing, *)
(* one action per iteration of `for data in input_data`, with the          *)
(* recursion kept on an explicit call stack.                               *)

\* the `tasks` whitelist
tasks == <<"SqlServerStoredProcedure", "Lookup", "IfCondition", "GetMetadata",
           "DatabricksNotebook", "WebActivity", "Wait", "Delete", "Copy">>

InTypeByEquality(x, task_type) == task_type = JStr(x)

\* x in task_type
InType(x, task_type) ==
    CASE task_type.t = "str" -> Contains(task_type.s, x)
      [] task_type.t = "dict" -> HasKey(task_type, x)
      [] task_type.t = "list" -> \E i \in 1..Len(task_type.items) : task_type.items[i] = JStr(x)
      [] OTHER -> FALSE

\* any(x in task_type for x in tasks)
MatchesWhitelist(task_type) == \E k \in 1..Len(tasks) : InType(tasks[k], task_type)

\* a row of table_data
ActivityRecord(pname, task, type, details, dependency) ==
    [pipeline |-> pname, task |-> task, type |-> type, details |-> details,
     dependency |-> dependency]

\* The else-branch of the `name` handler: the rows it appends to table_data, or raises
RecordTask(input_data, parent_task_name, pname) ==
    LET current_task_name == Get(input_data, "name", JStr("")).s
        task_type == Get(input_data, "type", JStr(""))
        task_details == parse_task_details(task_type, input_data)
        task_dependency_info == parse_dependsOn(Get(input_data, "dependsOn", JStr("")))
    IN  IF task_type.t \in {"int", "NoneType"} THEN [raised |-> TRUE, rows |-> <<>>]
        ELSE IF ~MatchesWhitelist(task_type) THEN [raised |-> FALSE, rows |-> <<>>]
        ELSE IF task_details.raised \/ task_dependency_info.raised
             THEN [raised |-> TRUE, rows |-> <<>>]
        ELSE [raised |-> FALSE,
              rows |-> << ActivityRecord(pname, current_task_name, task_type,
                                         OrElse(task_details.ret, ""),
                                         OrElse(task_dependency_info.ret, parent_task_name)) >>]

Prepended(table, rows) == rows \o table

\* lines 925-926 / 956-957: self.table_data.append([...])
Appended(table, rows) == table \o rows

\* the marker of a templated pipeline name
v_type == "[concat(parameters('factoryName')"

FindQuote(s) ==
    IF \E i \in 1..Len(s) : SubSeq(s, i, i) = "'"
    THEN (CHOOSE i \in 1..Len(s) :
            /\ SubSeq(s, i, i) = "'"
            /\ \A k \in 1..(i - 1) : SubSeq(s, k, k) # "'") - 1
    ELSE -1

\* s.rfind("'"), as a 0-based index, -1 when there is none
RFindQuote(s) ==
    IF \E i \in 1..Len(s) : SubSeq(s, i, i) = "'"
    THEN (CHOOSE i \in 1..Len(s) :
            /\ SubSeq(s, i, i) = "'"
            /\ \A k \in (i + 1)..Len(s) : SubSeq(s, k, k) # "'") - 1
    ELSE -1

NameOffset == 37

\* s[b:e] for 0 <= b and e >= -1
Slice(s, b, e) ==
    LET end == IF e < 0 THEN Len(s) + e ELSE (IF e > Len(s) THEN Len(s) ELSE e)
    IN  IF b >= end THEN "" ELSE SubSeq(s, b + 1, end)

\* pipeline_name[37:end_idx]
TemplatedName(name) == Slice(name, NameOffset, RFindQuote(name))

\* a call recursive_parsing*(input_data, parent_task_name) that has just begun
Frame(input_data, parent_task_name) ==
    [node |-> input_data, i |-> 1, cur |-> None, parent |-> parent_task_name]

Top == stack[Len(stack)]
Size(node) == IF node.t = "dict" THEN Len(node.kv) ELSE Len(node.items)
Key == Top.node.kv[Top.i][1]
Val == Top.node.kv[Top.i][2]

\* json_data.get('resources', '')
Resources(d) == Get(d, "resources", JStr(""))
IsEnvelope(d) == Resources(d).t = "list"
PipelineResourceType == "Microsoft.DataFactory/factories/pipelines"

\* the loop of the top call moves to its next element, current_task_name being cur
Advance(cur) == [stack EXCEPT ![Len(stack)].i = @ + 1, ![Len(stack)].cur = cur]

AtEntry == pc = "parse" /\ stack # <<>> /\ Top.i <= Size(Top.node)

Crash ==
    /\ pc' = "crashed"
    /\ stack' = <<>>
    /\ UNCHANGED <<pipeline_name_flag, pipeline_name, table_data>>

\* lines 1032-1041: the document is loaded and the traversal chosen
Load ==
    /\ pc = "start"
    /\ pc' = "parse"
    /\ stack' = IF IsEnvelope(doc) THEN <<>> ELSE <<Frame(doc, "")>>
    /\ UNCHANGED <<doc, res_idx, pipeline_name_flag, pipeline_name, table_data,
                   j, writerVars, instructions, ncalls, last>>
    /\ UNCHANGED xl_rows

\* lines 1037-1039: the next element of `resources`
NextResource ==
    /\ pc = "parse" /\ stack = <<>> /\ IsEnvelope(doc)
    /\ res_idx <= Len(Resources(doc).items)
    /\ LET data == Resources(doc).items[res_idx]
       IN  IF data.t # "dict"
           THEN Crash /\ UNCHANGED res_idx
           ELSE /\ stack' = IF Get(data, "type", JNull) = JStr(PipelineResourceType)
                            THEN <<Frame(data, "")>> ELSE <<>>
                /\ res_idx' = res_idx + 1
                /\ UNCHANGED <<pc, pipeline_name_flag, pipeline_name, table_data>>
    /\ UNCHANGED <<doc, j, writerVars, instructions, ncalls, last>>
    /\ UNCHANGED xl_rows

\* a `name` key with a string value is the element the loop is at
AtNameString == AtEntry /\ Top.node.t = "dict" /\ Val.t = "str" /\ Key = "name"

FlagNeverCleared == TRUE

\* line 912: the value the one-shot flag takes when the pipeline name is captured
FlagAfterCapture == FALSE

\* the `name` handler of recursive_parsing_Individual (lines 910-926)
VisitNameIndividual ==
    /\ AtEntry /\ ~IsEnvelope(doc)
    /\ Top.node.t = "dict" /\ Val.t = "str" /\ Key = "name"
    /\ IF pipeline_name_flag
       THEN /\ pipeline_name_flag' = FlagAfterCapture
            /\ pipeline_name' = Get(Top.node, "name", JStr("")).s
            /\ stack' = Advance(Top.cur)
            /\ UNCHANGED <<pc, table_data>>
       ELSE LET r == RecordTask(Top.node, Top.parent, pipeline_name)
            IN  IF r.raised THEN Crash
                ELSE /\ table_data' = Appended(table_data, r.rows)
                     /\ stack' = Advance(Some(Val.s))
                     /\ UNCHANGED <<pc, pipeline_name_flag, pipeline_name>>
    /\ UNCHANGED <<doc, res_idx, j, writerVars, instructions, ncalls, last>>
    /\ UNCHANGED xl_rows

\* the `name` handler of recursive_parsing (lines 941-957)
VisitNameEnvelope ==
    /\ AtEntry /\ IsEnvelope(doc)
    /\ Top.node.t = "dict" /\ Val.t = "str" /\ Key = "name"
    /\ IF Contains(Val.s, v_type)
       THEN /\ pipeline_name' = TemplatedName(Get(Top.node, "name", JStr("")).s)
            /\ stack' = Advance(Top.cur)
            /\ UNCHANGED <<pc, pipeline_name_flag, table_data>>
       ELSE LET r == RecordTask(Top.node, Top.parent, pipeline_name)
            IN  IF r.raised THEN Crash
                ELSE /\ table_data' = Appended(table_data, r.rows)
                     /\ stack' = Advance(Some(Val.s))
                     /\ UNCHANGED <<pc, pipeline_name_flag, pipeline_name>>
    /\ UNCHANGED <<doc, res_idx, j, writerVars, instructions, ncalls, last>>
    /\ UNCHANGED xl_rows

\* a string value under another key, or a value that is no str, dict or list
SkipValue ==
    /\ AtEntry /\ Top.node.t = "dict"
    /\ \/ Val.t = "str" /\ Key # "name"
       \/ Val.t \notin {"str", "dict", "list"}
    /\ stack' = Advance(Top.cur)
    /\ UNCHANGED <<doc, pc, res_idx, pipeline_name_flag, pipeline_name, table_data,
                   j, writerVars, instructions, ncalls, last>>
    /\ UNCHANGED xl_rows

\* lines 929-932 / 959-962: recurse into a dict or list value
Descend ==
    /\ AtEntry /\ Top.node.t = "dict" /\ Val.t \in {"dict", "list"}
    /\ stack' = Append(Advance(Top.cur), Frame(Val, OrElse(Top.cur, Top.parent)))
    /\ UNCHANGED <<doc, pc, res_idx, pipeline_name_flag, pipeline_name, table_data,
                   j, writerVars, instructions, ncalls, last>>
    /\ UNCHANGED xl_rows

\* lines 933-934 / 963-964: an element of a list; only a dict element is entered
VisitElement ==
    /\ AtEntry /\ Top.node.t = "list"
    /\ LET data == Top.node.items[Top.i]
       IN  stack' = IF data.t = "dict"
                    THEN Append(Advance(Top.cur), Frame(data, OrElse(Top.cur, Top.parent)))
                    ELSE Advance(Top.cur)
    /\ UNCHANGED <<doc, pc, res_idx, pipeline_name_flag, pipeline_name, table_data,
                   j, writerVars, instructions, ncalls, last>>
    /\ UNCHANGED xl_rows

\* the loop of the top call is exhausted: the call returns
Return ==
    /\ pc = "parse" /\ stack # <<>> /\ Top.i > Size(Top.node)
    /\ stack' = SubSeq(stack, 1, Len(stack) - 1)
    /\ UNCHANGED <<doc, pc, res_idx, pipeline_name_flag, pipeline_name, table_data,
                   j, writerVars, instructions, ncalls, last>>
    /\ UNCHANGED xl_rows

-----------------------------------------------------------------------------
(* Format-instruction resolver: ExcelUtils._convert_instructions_to_formats *)

\* Dictionary keys of the instruction tiers: an int key n or a str key s.
\* A cell key is the pair of two such keys.
IntKey(n) == <<"int", n>>
StrKey(str) == <<"str", str>>

RawIndex(idx) == IntKey(idx)

\* lines 695-696: str(row_idx), str(col_idx)
StrOf(idx) == StrKey(ToString(idx))

\* the keyword parameters of Formatter.__init__
FormatterFields == {"cell_str_format", "font_styles", "cell_borders", "text_color", "bg_color"}

\* Formatter(**total_instructions): a field not passed is None
Formatter(total_instructions) ==
    [f \in FormatterFields |->
        IF f \in DOMAIN total_instructions THEN Some(total_instructions[f]) ELSE None]

\* d.get(k) of a tier dictionary d, {} standing for None (both are falsy)
Entry(d, k) == IF k \in DOMAIN d THEN d[k] ELSE <<>>
Present(d, k) == DOMAIN Entry(d, k) # {}

KeepExisting(src, dst) == dst @@ src

\* for k, v in src.items(): dst[k] = v
Overlay(src, dst) == src @@ dst

\* d[k] = v, when k is a key of d
Store(d, k, v) == [d EXCEPT ![k] = v]

MergeTiersColumnLostUnderCell(instructions_copy, row_idx, col_idx) ==
    LET cell == <<row_idx, col_idx>>
        rowE == Entry(instructions_copy.row, row_idx)
        colE == Entry(instructions_copy.column, col_idx)
        cellE == Entry(instructions_copy.cell, cell)
    IN  [total |-> IF Present(instructions_copy.cell, cell)
                   THEN Overlay(cellE, rowE) ELSE Overlay(colE, rowE),
         written |-> instructions_copy]

\* The merge of lines 701-724 on instructions_copy: the dictionary handed to
\* Formatter (<<>> when there is none) and instructions_copy as the merge leaves it
MergeTiers(instructions_copy, row_idx, col_idx) ==
    LET cell == <<row_idx, col_idx>>
        hasCell == Present(instructions_copy.cell, cell)
        hasRow == Present(instructions_copy.row, row_idx)
        hasCol == Present(instructions_copy.column, col_idx)
        rowE == Entry(instructions_copy.row, row_idx)
        colE == Entry(instructions_copy.column, col_idx)
        cellE == Entry(instructions_copy.cell, cell)
    IN  IF hasCell
        THEN IF hasRow
             THEN LET total == Overlay(cellE, IF hasCol THEN Overlay(colE, rowE) ELSE rowE)
                  IN  [total |-> total,
                       written |-> [instructions_copy EXCEPT !.row = Store(@, row_idx, total)]]
             ELSE IF hasCol
             THEN LET total == Overlay(cellE, colE)
                  IN  [total |-> total,
                       written |-> [instructions_copy EXCEPT !.column = Store(@, col_idx, total)]]
             ELSE [total |-> cellE, written |-> instructions_copy]
        ELSE IF hasRow
        THEN LET total == IF hasCol THEN Overlay(colE, rowE) ELSE rowE
             IN  [total |-> total,
                  written |-> [instructions_copy EXCEPT !.row = Store(@, row_idx, total)]]
        ELSE IF hasCol
        THEN [total |-> colE, written |-> instructions_copy]
        ELSE [total |-> <<>>, written |-> instructions_copy]

SharedWithCaller(instr, written) == written

\* line 699: the merge writes into copy.deepcopy(instructions), so the
\* dictionary the caller passed is afterwards what it was before
CallerInstructionsAfter(instr, written) == instr

\* _convert_instructions_to_formats(instructions, row_idx, col_idx):
\* the Formatter returned and the caller's dictionary after the call
convert_instructions_to_formats(instr, row_idx, col_idx) ==
    LET m == MergeTiers(instr, StrOf(row_idx), StrOf(col_idx))
    IN  [fmt |-> Formatter(m.total), caller |-> CallerInstructionsAfter(instr, m.written)]

\* the Formatter alone
resolve(instr, row_idx, col_idx) == convert_instructions_to_formats(instr, row_idx, col_idx).fmt

NoInstructions == [row |-> <<>>, column |-> <<>>, cell |-> <<>>]

-----------------------------------------------------------------------------
(* Tabular writer: ExcelUtils.create_new, create_new_sheet, write_row,     *)
(* write_cell, close_workbook.                                             *)

\* DBUtility.serialize, on the value types of this model
serialize(obj) == IF obj.t \in {"str", "int", "dict"} THEN obj ELSE JNull

\* one call self.write_cell(row_idx, col_idx, value, formatter) on worksheet sheet
CellWrite(sheet, row_idx, col_idx, value, formatter) ==
    [sheet |-> sheet, row |-> row_idx, col |-> col_idx, value |-> value, fmt |-> formatter]

\* can `for ... in v` iterate v, and over what
Iterable(v) == v.t \in {"list", "str", "dict"}
Items(v) ==
    CASE v.t = "list" -> v.items
      [] v.t = "str" -> [i \in 1..Len(v.s) |-> JStr(SubSeq(v.s, i, i))]
      [] v.t = "dict" -> [i \in 1..Len(v.kv) |-> JStr(v.kv[i][1])]

RECURSIVE Flatten(_)
Flatten(seqs) == IF Len(seqs) = 0 THEN <<>> ELSE seqs[1] \o Flatten(Tail(seqs))

SetMin(S) == CHOOSE x \in S : \A y \in S : x <= y

\* the write_cell calls for the items of one row: written at sheet row `at`,
\* formatted by the instructions for row `style_row`
RowWrites(sheet, items, at, style_row, instr) ==
    [c \in 1..Len(items) |->
        CellWrite(sheet, at, c - 1, serialize(items[c]), resolve(instr, style_row, c - 1))]

\* write_cell line 495: worksheet.write takes strings, numbers and None and raises
\* TypeError for a dict.  Of the write_cell calls attempted in order, the ones
\* made before the first that raises
Accepted(attempted) ==
    LET rejected == {k \in 1..Len(attempted) : attempted[k].value.t = "dict"}
    IN  IF rejected = {} THEN attempted ELSE SubSeq(attempted, 1, SetMin(rejected) - 1)

\* write_row line 518: the row index a nested row's instructions are looked up with
NestedStyleRow(row_idx, off) == row_idx

NewOffsetOncePerCall(values, off) == IF Len(values) = 0 THEN off ELSE off + 1

NewOffsetRowsOnly(values, off) ==
    IF Len(values) = 0 THEN 0
    ELSE IF values[1].t = "list" THEN Len(values)
    ELSE 1

\* write_row lines 513-526: new_offset for `values` written from offset off
NewOffset(values, off) ==
    IF Len(values) = 0 THEN off
    ELSE IF values[1].t = "list" THEN off + Len(values)
    ELSE off + 1

\* write_row(values, offset, instructions) on a writer whose cursor is self_offset:
\* the write_cell calls made, whether it raised, and the cursor afterwards.
\* offset is None or Some(n); values is the sequence of the list's elements.
write_row(values, offArg, instr, self_offset, sheet) ==
    LET off == IF offArg = None THEN self_offset ELSE offArg[1]
        is_nested == Len(values) > 0 /\ values[1].t = "list"
        bad == {i \in 1..Len(values) : ~Iterable(values[i])}
        upto == IF bad = {} THEN Len(values) ELSE SetMin(bad) - 1
        attempted == IF Len(values) = 0 THEN <<>>
                     ELSE IF is_nested
                     THEN Flatten([i \in 1..upto |->
                             RowWrites(sheet, Items(values[i]), (i - 1) + off,
                                       NestedStyleRow(i - 1, off), instr)])
                     ELSE RowWrites(sheet, values, off, off, instr)
        writes == Accepted(attempted)
        raised == \/ is_nested /\ bad # {}
                  \/ attempted # <<>> /\ sheet = 0    \* write_cell on no workbook
                  \/ writes # attempted
    IN  [raised |-> raised,
         writes |-> IF sheet = 0 THEN <<>> ELSE writes,
         offset |-> IF raised THEN self_offset ELSE NewOffset(values, off),
         ret |-> IF raised THEN None ELSE Some(NewOffset(values, off))]

SheetOffsetLastRow(count, offset0) == (IF count = 0 THEN 0 ELSE count - 1) + offset0

\* create_new lines 425-426 / create_new_sheet lines 466-467: row_idx + 1 + offset,
\* row_idx being the last value of `for row_idx in range(count)`, 0 when count = 0
SheetOffset(count, offset0) == (IF count = 0 THEN 0 ELSE count - 1) + 1 + offset0

\* the body shared by create_new (402-426) and create_new_sheet (445-467):
\* headers first, then the rows of values that are lists
sheet_rows(values, separate_headers, instr, sheet) ==
    LET offset0 == IF Len(separate_headers) > 0 THEN 1 ELSE 0
        headerWrites == [idx \in 1..Len(separate_headers) |->
                            CellWrite(sheet, 0, idx - 1, JStr(separate_headers[idx]),
                                      resolve(instr, 0, idx - 1))]
        rowWrites == Flatten([i \in 1..Len(values) |->
                        IF values[i].t = "list"
                        THEN RowWrites(sheet, values[i].items, (i - 1) + offset0,
                                       (i - 1) + offset0, instr)
                        ELSE <<>>])
    IN  [raised |-> Accepted(headerWrites \o rowWrites) # headerWrites \o rowWrites,
         writes |-> Accepted(headerWrites \o rowWrites),
         offset |-> SheetOffset(Len(values), offset0)]

-----------------------------------------------------------------------------
(* The rest of the module main flow (lines 1043-1056).                     *)

headers == <<"Pipeline Name", "Task Name", "Type", "Details", "Depency Task: Condition">>

uniform_format ==
    [font_styles |-> <<"bold">>, text_color |-> "black", bg_color |-> "#99CCFF",
     cell_borders |-> <<"top">>]

\* get_initial_row_formatting(initial_row)
get_initial_row_formatting(initial_row) ==
    [row |-> <<>>,
     column |-> [k \in {StrOf(i) : i \in 0..(Len(initial_row) - 1)} |->
                    IF k = StrOf(Len(initial_row) - 1)
                    THEN [uniform_format EXCEPT !.cell_borders = <<"top", "right">>]
                    ELSE uniform_format],
     cell |-> <<>>]

CurrencyFormat == "[$$-409]#,##0_);[$$-409](#,##0)"
DetailsColumn == 3

\* get_rest_rows_formatting(start_position, formatted_row)
get_rest_rows_formatting(start_position, formatted_row) ==
    [row |-> <<>>,
     column |-> [k \in {StrOf(i) : i \in start_position..(Len(formatted_row) - 1)} |->
                    (IF k # StrOf(DetailsColumn)
                     THEN [cell_str_format |-> CurrencyFormat] ELSE <<>>)
                    @@ (IF k = StrOf(Len(formatted_row) - 1)
                        THEN [cell_borders |-> <<"right">>] ELSE <<>>)],
     cell |-> <<>>]

\* a row of table_data as the list handed to write_row
RowValues(rec) ==
    <<JStr(rec.pipeline), JStr(rec.task), rec.type, JStr(rec.details), JStr(rec.dependency)>>

NoCall == [op |-> "none"]

\* the traversal is over (line 1041 reached its end)
FinishParse ==
    /\ pc = "parse" /\ stack = <<>>
    /\ IsEnvelope(doc) => res_idx > Len(Resources(doc).items)
    /\ pc' = "create"
    /\ UNCHANGED <<doc, res_idx, stack, pipeline_name_flag, pipeline_name, table_data,
                   j, writerVars, instructions, ncalls, last>>
    /\ UNCHANGED xl_rows

\* lines 1043-1051: xl_utility.create_new(temp_path, [headers], overwrite=True, instructions=...)
CreateReport ==
    /\ pc = "create"
    /\ LET instr == get_initial_row_formatting(headers)
           values == << JList([i \in 1..Len(headers) |-> JStr(headers[i])]) >>
           r == sheet_rows(values, <<>>, instr, sheets + 1)
       IN  /\ workbook' = "open"
           /\ sheets' = sheets + 1
           /\ current_sheet' = sheets + 1
           /\ cells' = cells \o r.writes
           /\ offset' = IF r.raised THEN offset ELSE r.offset
           /\ last' = [op |-> "create_new", raised |-> r.raised, writes |-> r.writes,
                       ret |-> IF r.raised THEN None ELSE Some(r.offset), before |-> offset]
           /\ pc' = IF r.raised THEN "crashed" ELSE "rows"
    /\ j' = 1
    /\ ncalls' = ncalls + 1
    /\ UNCHANGED <<doc, res_idx, stack, pipeline_name_flag, pipeline_name, table_data,
                   instructions>>
    /\ UNCHANGED xl_rows

\* lines 1052-1055: one iteration of the loop over doc_gen.table_data
WriteRecord ==
    /\ pc = "rows" /\ j <= Len(table_data)
    /\ LET formatted_row == [i \in 1..Len(headers) |-> ""]
           each_row_formatting == get_rest_rows_formatting(1, formatted_row)
           values == RowValues(table_data[j])
           r == write_row(values, None, each_row_formatting, offset, current_sheet)
       IN  /\ cells' = cells \o r.writes
           /\ offset' = r.offset
           /\ last' = [op |-> "write_row", raised |-> r.raised, writes |-> r.writes,
                       ret |-> r.ret, before |-> offset, values |-> values,
                       offArg |-> None]
           /\ pc' = IF r.raised THEN "crashed" ELSE pc
           /\ j' = IF r.raised THEN j ELSE j + 1
    /\ ncalls' = ncalls + 1
    /\ UNCHANGED <<doc, res_idx, stack, pipeline_name_flag, pipeline_name, table_data,
                   workbook, current_sheet, sheets, instructions>>
    /\ UNCHANGED xl_rows

\* line 1056: xl_utility.close_workbook()
CloseReport ==
    /\ pc = "rows" /\ j > Len(table_data)
    /\ workbook' = "closed"
    /\ current_sheet' = 0
    /\ pc' = "done"
    /\ last' = [op |-> "close_workbook", raised |-> FALSE]
    /\ ncalls' = ncalls + 1
    /\ UNCHANGED <<doc, res_idx, stack, pipeline_name_flag, pipeline_name, table_data,
                   j, sheets, offset, cells, instructions>>
    /\ xl_rows' = None

-----------------------------------------------------------------------------
(* Input documents.                                                        *)

KV(k, v) == <<k, v>>

\* typeProperties as each activity kind carries them in a pipeline definition
TypeProperties(type) ==
    CASE type = "Lookup" ->
            JObj(<<KV("source", JObj(<<KV("type", JStr("AzureSqlSource")),
                                      KV("sqlReaderStoredProcedureName", JStr("sp_x")),
                                      KV("storedProcedureParameters",
                                         JObj(<<KV("p1", JObj(<<KV("value", JStr("5"))>>))>>))>>))>>)
      [] type = "IfCondition" ->
            JObj(<<KV("expression", JObj(<<KV("value", JStr("@equals(1,1)")),
                                          KV("type", JStr("Expression"))>>))>>)
      [] type = "SqlServerStoredProcedure" ->
            JObj(<<KV("storedProcedureName", JStr("sp_y")),
                   KV("storedProcedureParameters",
                      JObj(<<KV("p1", JObj(<<KV("value", JNum(7))>>)),
                             KV("p2", JObj(<<KV("value", JObj(<<KV("value", JStr("v"))>>))>>))>>))>>)
      [] type = "WebActivity" ->
            JObj(<<KV("url", JStr("http://h")), KV("method", JStr("POST")),
                   KV("body", JStr("b"))>>)
      [] type = "Wait" -> JObj(<<KV("waitTimeInSeconds", JNum(30))>>)
      [] type \in {"Delete", "DeleteActivityV2"} ->
            JObj(<<KV("dataset", JObj(<<KV("referenceName", JStr("ds")),
                                       KV("type", JStr("DatasetReference"))>>)),
                   KV("storeSettings", JObj(<<KV("wildcardFileName", JStr("*.csv"))>>))>>)
      [] type = "ExecutePipeline" ->
            JObj(<<KV("pipeline", JObj(<<KV("referenceName", JStr("Child")),
                                        KV("type", JStr("PipelineReference"))>>))>>)
      [] type = "Copy" ->
            JObj(<<KV("source", JObj(<<KV("type", JStr("SqlDWSource")),
                                      KV("sqlReaderStoredProcedureName", JStr("sp_c"))>>))>>)
      [] type = "DatabricksNotebook" ->
            JObj(<<KV("notebookPath", JStr("/nb")),
                   KV("baseParameters", JObj(<<KV("a", JStr("1")),
                                              KV("b", JObj(<<KV("value", JStr("2"))>>))>>))>>)
      [] type = "GetMetadata" ->
            JObj(<<KV("dataset", JObj(<<KV("referenceName", JStr("ds")),
                                       KV("type", JStr("DatasetReference"))>>)),
                   KV("fieldList", JList(<<JStr("exists"), JStr("size")>>))>>)
      [] OTHER -> JObj(<<KV("variableName", JStr("v"))>>)

\* the keys of an activity besides name/type/dependsOn
Body(type, bare) ==
    IF bare THEN <<>>
    ELSE (IF type = "Copy"
          THEN <<KV("inputs", JList(<<JObj(<<KV("referenceName", JStr("In")),
                                            KV("type", JStr("DatasetReference"))>>)>>)),
                 KV("outputs", JList(<<JObj(<<KV("referenceName", JStr("Out")),
                                             KV("type", JStr("DatasetReference"))>>)>>))>>
          ELSE <<>>)
         \o <<KV("typeProperties", TypeProperties(type))>>

Dependency(activity, conds) ==
    JObj(<<KV("activity", JStr(activity)),
           KV("dependencyConditions", JList([i \in 1..Len(conds) |-> JStr(conds[i])]))>>)

\* the dependsOn values of the documents: <<>> stands for no dependsOn key
DependsOnChoices ==
    { <<>>,
      <<KV("dependsOn", JList(<<>>))>>,
      <<KV("dependsOn", JList(<<Dependency("A1", <<"Succeeded">>)>>))>>,
      <<KV("dependsOn", JList(<<Dependency("A1", <<"Succeeded", "Failed">>),
                                Dependency("B1", <<"Completed">>)>>))>> }

ActivityTypes ==
    {"SqlServerStoredProcedure", "Lookup", "IfCondition", "GetMetadata", "DatabricksNotebook",
     "WebActivity", "Wait", "Delete", "Copy", "ExecutePipeline",
     "AzureDataExplorerCommand", "SetVariable", "DeleteActivityV2"}

\* an activity node, `name` first as the service exports it
Activity(name, type, dependsOn, body) ==
    JObj(<<KV("name", JStr(name)), KV("type", JStr(type))>> \o dependsOn \o body)

LeafActivities ==
    { Activity("A2", type, dep, Body(type, bare)) :
        type \in ActivityTypes, dep \in DependsOnChoices, bare \in BOOLEAN }

\* activities with typeProperties that lack a nested field, or give a parameter
\* as a raw value instead of {value}
PartialActivities ==
    { Activity("A2", "Delete", <<>>,
               <<KV("typeProperties",
                    JObj(<<KV("storeSettings", JObj(<<KV("wildcardFileName", JStr("*.csv"))>>))>>))>>),
      Activity("A2", "GetMetadata", <<>>,
               <<KV("typeProperties", JObj(<<KV("fieldList", JList(<<JStr("exists")>>))>>))>>),
      Activity("A2", "Lookup", <<>>,
               <<KV("typeProperties",
                    JObj(<<KV("source",
                              JObj(<<KV("sqlReaderStoredProcedureName", JStr("sp_x")),
                                     KV("storedProcedureParameters",
                                        JObj(<<KV("p1", JStr("5"))>>))>>))>>))>>),
      Activity("A2", "Copy", <<>>, <<KV("typeProperties", TypeProperties("Copy"))>>),
      Activity("A2", "DatabricksNotebook", <<>>,
               <<KV("typeProperties", JObj(<<KV("baseParameters", JObj(<<KV("a", JNum(1))>>))>>))>>) }

\* a composite activity holding child activities; nameFirst tells the key order
Composite(name, type, nameFirst, children) ==
    LET head == <<KV("name", JStr(name)), KV("type", JStr(type))>>
        inner == <<KV("typeProperties",
                      JObj(<<KV("expression", JObj(<<KV("value", JStr("@equals(1,1)"))>>)),
                             KV("ifTrueActivities", JList(children))>>))>>
    IN  JObj(IF nameFirst THEN head \o inner ELSE inner \o head)

ChildActivities ==
    { Activity("C1", type, dep, Body(type, FALSE)) :
        type \in {"Wait", "Lookup"},
        dep \in {<<>>, <<KV("dependsOn", JList(<<Dependency("C0", <<"Succeeded">>)>>))>>} }

CompositeActivities ==
    { Composite("If1", "IfCondition", nameFirst, <<c>>) :
        nameFirst \in BOOLEAN, c \in ChildActivities }
    \cup
    { Composite("Loop1", "ForEach", TRUE, <<Composite("If1", "IfCondition", nameFirst, <<c>>)>>) :
        nameFirst \in BOOLEAN, c \in ChildActivities }
    \cup
    { Composite("Loop1", "ForEach", nameFirst, <<c>>) :
        nameFirst \in BOOLEAN, c \in ChildActivities }

\* a single-pipeline document
Pipeline(name, activities) ==
    JObj(<<KV("name", JStr(name)),
           KV("properties", JObj(<<KV("activities", JList(activities)),
                                  KV("annotations", JList(<<>>))>>))>>)

\* the document of the Lookup scenario
LookupDoc(P, A, S, params) ==
    JObj(<<KV("name", JStr(P)),
           KV("activities", JList(<<
              JObj(<<KV("name", JStr(A)), KV("type", JStr("Lookup")),
                     KV("typeProperties", JObj(<<KV("source",
                        JObj(<<KV("sqlReaderStoredProcedureName", JStr(S)),
                               KV("storedProcedureParameters",
                                  JObj([i \in 1..Len(params) |->
                                          KV(params[i][1],
                                             JObj(<<KV("value", JStr(params[i][2]))>>))]))>>))>>))>>)>>))>>)

LookupParams ==
    { <<>>, << <<"p1", "5">> >>, << <<"p1", "5">>, <<"p2", "x">> >>, << <<"p2", "">>, <<"p1", "7">> >> }

LookupDocs ==
    { LookupDoc(P, A, S, params) :
        P \in {"PL1", "PL2"}, A \in {"A1", "PL1"}, S \in {"sp_x", ""}, params \in LookupParams }

SinglePipelineDocs ==
    { Pipeline("PL1", <<a>>) :
        a \in LeafActivities \cup PartialActivities \cup CompositeActivities }
    \cup { Pipeline("PL1", <<Activity("A1", "Wait", <<>>, Body("Wait", FALSE)), a>>) :
              a \in { Activity("A2", "Lookup", dep, Body("Lookup", FALSE)) : dep \in DependsOnChoices } }
    \cup LookupDocs
    \cup { \* an array directly inside an array
           JObj(<<KV("name", JStr("PL1")),
                  KV("activities", JList(<<JList(<<Activity("A1", "Wait", <<>>, Body("Wait", FALSE))>>)>>))>>),
           \* no name at the root
           JObj(<<KV("properties", JObj(<<KV("activities",
                    JList(<<Activity("A1", "Wait", <<>>, Body("Wait", FALSE)),
                            Activity("A2", "Wait", <<>>, Body("Wait", FALSE))>>))>>))>>),
           \* a `type` that is no string
           Pipeline("PL1", <<JObj(<<KV("name", JStr("A1")), KV("type", JNum(3))>>)>>),
           \* a `type` that is an object with a whitelisted key
           Pipeline("PL1", <<Activity("A1", "Wait", <<>>, Body("Wait", FALSE)),
                             JObj(<<KV("name", JStr("A2")),
                                    KV("type", JObj(<<KV("Lookup", JStr("x"))>>))>>)>>),
           JObj(<<>>) }

\* a resource of an ARM template envelope
Resource(name, type, activities) ==
    JObj(<<KV("name", JStr(name)), KV("type", JStr(type)), KV("apiVersion", JStr("2018-06-01")),
           KV("properties", JObj(<<KV("activities", JList(activities))>>)),
           KV("dependsOn", JList(<<>>))>>)

TemplatedNames ==
    { "[concat(parameters('factoryName'), '/PL1')]",
      "[concat(parameters('factoryName'), '/PL2')]",
      "[concat(parameters('factoryName'), '/PL1_', parameters('env'))]" }

Envelope(resources) ==
    JObj(<<KV("$schema", JStr("http://schema")), KV("contentVersion", JStr("1.0.0.0")),
           KV("resources", JList(resources))>>)

EnvelopeActivities ==
    { Activity("A2", type, dep, Body(type, FALSE)) :
        type \in {"Lookup", "Wait", "ExecutePipeline", "SetVariable"},
        dep \in {<<>>, <<KV("dependsOn", JList(<<Dependency("A1", <<"Succeeded">>)>>))>>} }
    \cup { Composite("If1", "IfCondition", nameFirst,
                     <<Activity("C1", "Wait", <<>>, Body("Wait", FALSE))>>) : nameFirst \in BOOLEAN }

EnvelopeDocs ==
    { Envelope(<<Resource(n, PipelineResourceType, <<a>>)>>) :
        n \in TemplatedNames, a \in EnvelopeActivities }
    \cup
    { Envelope(<<Resource("[concat(parameters('factoryName'), '/PL1')]", PipelineResourceType, <<a>>),
                 Resource("[concat(parameters('factoryName'), '/DS1')]",
                          "Microsoft.DataFactory/factories/datasets", <<a>>),
                 Resource(n2, PipelineResourceType,
                          <<Activity("B2", "Wait", <<>>, Body("Wait", FALSE))>>)>>) :
        a \in EnvelopeActivities,
        n2 \in TemplatedNames \cup {"PL3"} }
    \cup { Envelope(<<>>), Envelope(<<JStr("x")>>) }

Documents == SinglePipelineDocs \cup EnvelopeDocs

-----------------------------------------------------------------------------
(* The main flow: one run of the program on one document.                  *)

FreshExtractor ==
    /\ res_idx = 1
    /\ stack = <<>>
    /\ pipeline_name_flag = TRUE
    /\ pipeline_name = ""
    /\ table_data = <<>>
    /\ j = 1

FreshWriter ==
    /\ workbook = "none"
    /\ current_sheet = 0
    /\ sheets = 0
    /\ offset = 0
    /\ cells = <<>>
    /\ xl_rows = None

Init ==
    /\ doc \in Documents
    /\ pc = "start"
    /\ FreshExtractor
    /\ FreshWriter
    /\ instructions = NoInstructions
    /\ ncalls = 0
    /\ last = NoCall

Next ==
    \/ Load
    \/ NextResource
    \/ VisitNameIndividual
    \/ VisitNameEnvelope
    \/ SkipValue
    \/ Descend
    \/ VisitElement
    \/ Return
    \/ FinishParse
    \/ CreateReport
    \/ WriteRecord
    \/ CloseReport

Spec == Init /\ [][Next]_vars

-----------------------------------------------------------------------------
(* Properties of the activity extractor.                                   *)

LastRow(t) == t[Len(t)]

\* a step of the traversal appends a record for the node the loop is at
AppendsRecord == Len(table_data') = Len(table_data) + 1

\* C1: in single-pipeline mode the pipeline name is captured exactly once: the
\* first string-valued `name` visited sets it and clears the one-shot flag, and
\* no later step of the traversal changes it.
C1_PipelineNameCapturedOnce ==
    [][ ~IsEnvelope(doc) =>
          /\ pipeline_name_flag /\ AtNameString
                => pipeline_name' = Val.s /\ ~pipeline_name_flag'
          /\ pipeline_name_flag /\ ~AtNameString
                => pipeline_name' = pipeline_name /\ pipeline_name_flag'
          /\ ~pipeline_name_flag
                => pipeline_name' = pipeline_name /\ ~pipeline_name_flag' ]_vars

\* a later `name` was visited (it made a record) and the captured name stands
C1_Witness ==
    /\ ~IsEnvelope(doc) /\ pc = "done" /\ ~pipeline_name_flag
    /\ pipeline_name = "PL1"
    /\ Len(table_data) = 2
    /\ table_data[1].task = "A1" /\ table_data[2].task = "A2"
    /\ table_data[2].pipeline = "PL1"

\* the node has no dependsOn, or an empty one
LacksDependsOn(node) ==
    ~HasKey(node, "dependsOn") \/ Get(node, "dependsOn", JNull) = JList(<<>>)

\* The calls below the top one are the containers enclosing the node the top
\* call walks; the first is the document root (the resource, in envelope mode),
\* whose name is the pipeline's.  The named ones among the others:
NamedAncestors ==
    { k \in 2..(Len(stack) - 1) :
        stack[k].node.t = "dict" /\ Get(stack[k].node, "name", JNull).t = "str" }

NearestAncestorName ==
    IF NamedAncestors = {} THEN ""
    ELSE Get(stack[CHOOSE k \in NamedAncestors : \A m \in NamedAncestors : m <= k].node,
             "name", JNull).s

\* C2: the record of a node without dependsOn carries the name of the nearest
\* enclosing named ancestor, whatever the order of the keys of the enclosing
\* objects, and the empty string only when there is no named ancestor.
C2_DependencyIsNearestNamedAncestor ==
    [][ AppendsRecord /\ LacksDependsOn(Top.node)
          => LastRow(table_data').dependency = NearestAncestorName ]_vars

\* "<activity>:<cond1>,<cond2>,..." for each entry, the entries joined by commas
RECURSIVE CommaSeparated(_, _)
CommaSeparated(texts, k) ==
    IF k = 0 THEN ""
    ELSE IF k = 1 THEN texts[1]
    ELSE CommaSeparated(texts, k - 1) \o "," \o texts[k]

RenderedEntry(e) ==
    LET conds == Get(e, "dependencyConditions", JNull).items
    IN  Get(e, "activity", JNull).s \o ":"
        \o CommaSeparated([i \in 1..Len(conds) |-> conds[i].s], Len(conds))

RenderedDependsOn(entries) ==
    CommaSeparated([i \in 1..Len(entries) |-> RenderedEntry(entries[i])], Len(entries))

\* C3: a dependsOn array of {activity, dependencyConditions} entries is rendered
\* entry by entry as "<activity>:<conds joined by commas>", the entries joined by
\* commas in array order; an empty or absent array yields None and the record
\* carries the ancestor name the traversal passed down.
C3_DependsOnRendering ==
    [][ AppendsRecord =>
          LET dependsOn == Get(Top.node, "dependsOn", JStr(""))
              dep == LastRow(table_data').dependency
          IN  /\ dependsOn.t = "list" /\ Len(dependsOn.items) > 0
                    => dep = RenderedDependsOn(dependsOn.items)
              /\ dependsOn = JList(<<Dependency("A1", <<"Succeeded">>)>>)
                    => dep = "A1:Succeeded"
              /\ LacksDependsOn(Top.node)
                    => /\ parse_dependsOn(dependsOn) = Returned(None)
                       /\ dep = Top.parent ]_vars

\* a record rendered from two entries, the first with two conditions
C3_Witness ==
    \E i \in 1..Len(table_data) :
        /\ table_data[i].task = "A2"
        /\ table_data[i].dependency = "A1:Succeeded,Failed,B1:Completed"

RecognisedKinds ==
    {"SqlServerStoredProcedure", "Lookup", "IfCondition", "GetMetadata", "DatabricksNotebook",
     "WebActivity", "Wait", "Delete", "Copy", "ExecutePipeline"}

\* the formatter of each recognised kind
KindFormatter(kind, node) ==
    CASE kind = "SqlServerStoredProcedure" -> ParseSPROC(node)
      [] kind = "Lookup" -> ParseLookup(node)
      [] kind = "IfCondition" -> ParseIfCondition(node)
      [] kind = "GetMetadata" -> ParseGetMetadataActivity(node)
      [] kind = "DatabricksNotebook" -> ParseNotebookActivity(node)
      [] kind = "WebActivity" -> ParseWebActivity(node)
      [] kind = "Wait" -> ParseWaitActivity(node)
      [] kind = "Delete" -> ParseDeleteActivity(node)
      [] kind = "Copy" -> ParseCopyActivity(node)
      [] kind = "ExecutePipeline" -> ParseExecutePipeline(node)

\* the `name` at hand is the one taken as the pipeline name
TakenAsPipelineName ==
    IF IsEnvelope(doc) THEN Contains(Val.s, v_type) ELSE pipeline_name_flag

\* C4: visiting the `name` of a node of one of the ten recognised kinds (and
\* not taken as the pipeline name) appends exactly one record, whose detail text
\* is what that kind's formatter returns -- ExecutePipeline included.
C4_RecognisedKindsRecorded ==
    [][ /\ AtNameString /\ ~TakenAsPipelineName
        /\ \E kind \in RecognisedKinds : Get(Top.node, "type", JNull) = JStr(kind)
        /\ pc' # "crashed"
        => /\ AppendsRecord
           /\ LastRow(table_data').task = Val.s
           /\ LastRow(table_data').details
                = OrElse(KindFormatter(Get(Top.node, "type", JNull).s, Top.node).ret, "") ]_vars

\* "p1: v1,p2: v2,..."
RenderedParams(params) ==
    CommaSeparated([i \in 1..Len(params) |-> params[i][1] \o ": " \o params[i][2]], Len(params))

\* C5: a single-pipeline document {name: P, activities: [Lookup A with stored
\* procedure S and parameters p_i -> {value: v_i}]} yields exactly the one record
\* (P, A, "Lookup", "S ,    Parameters: p1: v1,...", ""); the scenario's document
\* yields ("PL1", "A1", "Lookup", "sp_x ,    Parameters: p1: 5", "").
C5_LookupScenario ==
    pc \in {"create", "rows", "done"} =>
        /\ \A P \in {"PL1", "PL2"}, A \in {"A1", "PL1"}, S \in {"sp_x", ""}, params \in LookupParams :
              doc = LookupDoc(P, A, S, params)
                => table_data = << ActivityRecord(P, A, JStr("Lookup"),
                                      S \o " ,    Parameters: " \o RenderedParams(params), "") >>
        /\ doc = LookupDoc("PL1", "A1", "sp_x", << <<"p1", "5">> >>)
              => table_data = << ActivityRecord("PL1", "A1", JStr("Lookup"),
                                                "sp_x ,    Parameters: p1: 5", "") >>

C5_Witness ==
    /\ pc = "done"
    /\ doc = LookupDoc("PL1", "A1", "sp_x", << <<"p1", "5">> >>)
    /\ Len(table_data) = 1
    /\ table_data[1].details = "sp_x ,    Parameters: p1: 5"

\* the `name` at hand is that of a task node of one of the ten kinds with a formatter
AtRecognisedTask ==
    /\ AtNameString /\ ~TakenAsPipelineName
    /\ \E kind \in RecognisedKinds : Get(Top.node, "type", JNull) = JStr(kind)

\* C13: the formatter of a recognised kind never raises on a node that lacks
\* some of its nested fields (typeProperties, dataset, inputs / outputs,
\* parameters given as raw values), so visiting such a node never aborts the
\* extraction.
C13_FormattersNeverRaise ==
    [][ AtRecognisedTask =>
          /\ ~KindFormatter(Get(Top.node, "type", JNull).s, Top.node).raised
          /\ pc' # "crashed" ]_vars

\* the run is over: the main flow reached its end, or an exception left it
RunOver == pc \in {"done", "crashed"}

\* C14: the workbook is opened once, every write goes to it, and on every path
\* on which the run ends after opening it -- a failed header or row write
\* included -- close_workbook has released it.
C14_WorkbookReleasedOnEveryExit ==
    /\ sheets <= 1
    /\ \A k \in 1..Len(cells) : cells[k].sheet = 1
    /\ RunOver => workbook # "open"

\* the node is named and its `type` matches no whitelist entry
Unrecognised(node) ==
    /\ node.t = "dict" /\ Get(node, "name", JNull).t = "str"
    /\ ~MatchesWhitelist(Get(node, "type", JStr("")))

\* C17: visiting the `name` of a node whose `type` matches no whitelist entry
\* appends no record and raises no error, and every call the traversal makes
\* into a child of such a node carries the node's name as ancestor context.
C17_UnrecognisedSkipped ==
    [][ /\ (AtNameString /\ ~TakenAsPipelineName /\ Unrecognised(Top.node))
              => table_data' = table_data /\ pc' # "crashed"
        /\ (AtEntry /\ Len(stack) >= 2 /\ Unrecognised(Top.node)
              /\ Len(stack') = Len(stack) + 1)
              => stack'[Len(stack')].parent = Get(Top.node, "name", JNull).s ]_vars

\* the `name` at hand is that of a task node whose `type` is a string that
\* contains a whitelist token and is none of the kinds
AtVariantTask ==
    /\ AtNameString /\ ~TakenAsPipelineName
    /\ Get(Top.node, "type", JNull).t = "str"
    /\ Get(Top.node, "type", JNull).s \notin RecognisedKinds
    /\ \E k \in 1..Len(tasks) : Contains(Get(Top.node, "type", JNull).s, tasks[k])

\* the whitelist token the type contains
MatchedKind(type) == tasks[CHOOSE k \in 1..Len(tasks) : Contains(type, tasks[k])]

\* C18 as stated: a node whose `type` contains a whitelist token without being
\* equal to it gets a record with its full type string and the detail text of
\* the formatter of the kind it matched.
C18_VariantFormattedAsMatchedKind ==
    [][ AtVariantTask =>
          /\ AppendsRecord
          /\ LastRow(table_data').type = Get(Top.node, "type", JNull)
          /\ LastRow(table_data').details =
                OrElse(KindFormatter(MatchedKind(Get(Top.node, "type", JNull).s), Top.node).ret,
                       "") ]_vars

\* C18, amended: such a node gets a record with its name and its full type
\* string, and an empty detail text: the formatter is chosen by equality with
\* the kind, so none applies.
C18_VariantRecordedWithoutDetails ==
    [][ AtVariantTask =>
          /\ AppendsRecord
          /\ LastRow(table_data').task = Val.s
          /\ LastRow(table_data').type = Get(Top.node, "type", JNull)
          /\ LastRow(table_data').details = "" ]_vars

\* the run recorded a DeleteActivityV2 node, which carries what Delete reads
C18_Witness ==
    /\ pc = "done"
    /\ \E i \in 1..Len(table_data) :
          /\ table_data[i].type = JStr("DeleteActivityV2")
          /\ table_data[i].details = ""
          /\ ~ParseDeleteActivity(Activity("A2", "DeleteActivityV2", <<>>,
                                           Body("DeleteActivityV2", FALSE))).raised
    /\ \E k \in 1..Len(cells) : cells[k].value = JStr("DeleteActivityV2")

\* the traversal of the whole document is over
TraversalOver ==
    /\ pc \notin {"start", "parse"}
    /\ stack = <<>>
    /\ IsEnvelope(doc) => res_idx > Len(Resources(doc).items)

\* what the writer was handed for the cell: the header, or the field of the
\* record that the row stands for
ExpectedValue(cell) ==
    IF cell.row = 0 THEN JStr(headers[cell.col + 1])
    ELSE serialize(RowValues(table_data[cell.row])[cell.col + 1])

\* C19: the record sequence only grows at its end; nothing is written before
\* the whole document (every pipeline resource of an envelope) is traversed;
\* and the rows are written in the order of the records: row r of the sheet is
\* record r, no write goes back to an earlier row, and at the end of the run
\* every record has its row.
C19_AppendOnlyInTraversalOrder ==
    /\ [][ /\ Len(table_data') >= Len(table_data)
           /\ SubSeq(table_data', 1, Len(table_data)) = table_data ]_vars
    /\ [](workbook # "none" \/ cells # <<>> => TraversalOver)
    /\ [](/\ \A k \in 1..Len(cells) :
                /\ cells[k].row \in 0..Len(table_data)
                /\ cells[k].value = ExpectedValue(cells[k])
          /\ \A k, m \in 1..Len(cells) : k < m => cells[k].row <= cells[m].row
          /\ pc = "done" => Len(cells) = Len(headers) * (1 + Len(table_data)))

\* an envelope of two pipelines was traversed to its end, and the record of each
\* was written, in the order they were appended
C19_Witness ==
    /\ IsEnvelope(doc) /\ pc = "done"
    /\ Len(table_data) = 2
    /\ table_data[1].pipeline = "PL1" /\ table_data[2].pipeline = "PL2"
    /\ \E k, m \in 1..Len(cells) :
          /\ k < m
          /\ cells[k].row = 1 /\ cells[k].value = JStr(table_data[1].task)
          /\ cells[m].row = 2 /\ cells[m].value = JStr(table_data[2].task)

\* the envelope traversal is at a `name` string that contains the marker
AtMarkerName == AtNameString /\ IsEnvelope(doc) /\ Contains(Val.s, v_type)

\* the positions (1-based) of the quote characters of s after its first 37 characters
QuotesAfterOffset(s) == {i \in 38..Len(s) : SubSeq(s, i, i) = "'"}
SetMax(S) == CHOOSE x \in S : \A y \in S : x >= y

\* the characters of s after its first 37, up to the quote at position q
UpToQuote(s, q) == IF q <= 38 THEN "" ELSE SubSeq(s, 38, q - 1)

\* the names N of the templated names "[concat(parameters('factoryName'), '/N')]"
PlainNames == {"PL1", "PL2"}
Templated(N) == "[concat(parameters('factoryName'), '/" \o N \o "')]"

\* C22 as stated: a marker name sets the pipeline name to the substring that
\* starts at character 37 and runs up to the next quote after it; for the form
\* "[concat(parameters('factoryName'), '/N')]" it is N; no record is appended.
C22_NameUpToNextQuote ==
    [][ AtMarkerName =>
          /\ QuotesAfterOffset(Val.s) # {}
                => pipeline_name' = UpToQuote(Val.s, SetMin(QuotesAfterOffset(Val.s)))
          /\ \A N \in PlainNames : Val.s = Templated(N) => pipeline_name' = N
          /\ table_data' = table_data ]_vars

\* C22, amended: the substring runs up to the last quote character of the name
\* (it is empty when no quote follows character 37).
C22_NameUpToLastQuote ==
    [][ AtMarkerName =>
          /\ pipeline_name' = IF QuotesAfterOffset(Val.s) = {} THEN ""
                              ELSE UpToQuote(Val.s, SetMax(QuotesAfterOffset(Val.s)))
          /\ \A N \in PlainNames : Val.s = Templated(N) => pipeline_name' = N
          /\ table_data' = table_data ]_vars

\* the name of a resource went on after the pipeline's name: what was captured
\* runs to the last quote, and nothing was recorded for the resource node
C22_Witness ==
    /\ IsEnvelope(doc) /\ pc = "parse"
    /\ pipeline_name = "PL1_', parameters('env"
    /\ table_data = <<>>

\* the objects and arrays held by v, directly: the values of an object, the
\* elements of an array
Children(v) ==
    IF v.t = "dict" THEN {v.kv[i][2] : i \in 1..Len(v.kv)}
    ELSE IF v.t = "list" THEN {v.items[i] : i \in 1..Len(v.items)}
    ELSE {}

\* the objects at any nesting depth under the values of S
RECURSIVE Objects(_)
Objects(S) ==
    IF S = {} THEN {}
    ELSE {v \in S : v.t = "dict"} \cup Objects(UNION {Children(v) : v \in S})

\* what the traversal is started on: the document, or each pipeline resource
TraversalRoots ==
    IF IsEnvelope(doc)
    THEN {r \in Children(Resources(doc)) :
            r.t = "dict" /\ Get(r, "type", JNull) = JStr(PipelineResourceType)}
    ELSE {doc}

\* a named node whose `type` is a string matching the whitelist, and whose name
\* is not the one the pipeline name is taken from
RecognisedNamed(node) ==
    /\ Get(node, "name", JNull).t = "str"
    /\ Get(node, "type", JNull).t = "str"
    /\ MatchesWhitelist(Get(node, "type", JNull))
    /\ IF IsEnvelope(doc) THEN ~Contains(Get(node, "name", JNull).s, v_type)
       ELSE Get(node, "name", JNull).s # pipeline_name

\* the loop of the top call is at a value that is an object or an array
AtContainer ==
    /\ AtEntry
    /\ (IF Top.node.t = "dict" THEN Val ELSE Top.node.items[Top.i]).t \in {"dict", "list"}

\* C23: whenever the value at hand is an object or an array -- an array that is
\* an element of an array included -- the traversal recurses into it; so when the
\* traversal has ended, every recognised named node, at any depth, was visited
\* exactly once: it has exactly one record.
C23_EveryObjectReached ==
    /\ [][ AtContainer =>
             /\ Len(stack') = Len(stack) + 1
             /\ stack'[Len(stack')].node
                   = IF Top.node.t = "dict" THEN Val ELSE Top.node.items[Top.i] ]_vars
    /\ [](pc \in {"create", "rows", "done"} =>
             \A node \in Objects(TraversalRoots) :
                 RecognisedNamed(node) =>
                     Cardinality({i \in 1..Len(table_data) :
                                    table_data[i].task = Get(node, "name", JNull).s}) = 1)

\* the pipeline resources of the envelope whose objects hold a node of that name
EnclosingResources(task) ==
    {r \in TraversalRoots :
        \E node \in Objects({r}) \ {r} : Get(node, "name", JNull) = JStr(task)}

\* the pipeline names extracted from the templated names of the other resources
NamesOfOthers(r) ==
    {TemplatedName(Get(o, "name", JNull).s) :
        o \in {o \in TraversalRoots : /\ o # r
                                      /\ Get(o, "name", JNull).t = "str"
                                      /\ Contains(Get(o, "name", JNull).s, v_type)}}

\* C24: in envelope mode only the resources of the pipeline type are traversed,
\* and every record carries the pipeline name extracted from the resource that
\* encloses its node: not the empty initial name, and not the name of another
\* resource.
C24_RecordCarriesOwnPipelineName ==
    /\ [][ (pc = "parse" /\ IsEnvelope(doc) /\ stack = <<>> /\ stack' # <<>>)
              => Get(stack'[1].node, "type", JNull) = JStr(PipelineResourceType) ]_vars
    /\ [](IsEnvelope(doc) =>
            \A i \in 1..Len(table_data) :
                \A r \in EnclosingResources(table_data[i].task) :
                    /\ table_data[i].pipeline # ""
                    /\ Contains(Get(r, "name", JNull).s, v_type)
                          => table_data[i].pipeline = TemplatedName(Get(r, "name", JNull).s)
                    /\ ~Contains(Get(r, "name", JNull).s, v_type)
                          => table_data[i].pipeline \notin NamesOfOthers(r))

\* the write_cell calls made at sheet coordinate (r, c)
WritesAt(r, c) == {k \in 1..Len(cells) : cells[k].row = r /\ cells[k].col = c}

\* C25: in the main run with n records the header is written at sheet row 0 and
\* the i-th record at row i + 1 (each write_row call writes at the row after the
\* rows written so far); at the end every cell of rows 0..n was written exactly
\* once, none outside them, and the cursor is n + 1.
C25_RecordsFollowHeader ==
    /\ [][ (pc = "rows" /\ j' = j + 1) =>
              /\ offset = j /\ offset' = j + 1
              /\ Len(cells') = Len(cells) + Len(headers)
              /\ \A k \in (Len(cells) + 1)..Len(cells') : cells'[k].row = j ]_vars
    /\ [](pc = "done" =>
            /\ offset = Len(table_data) + 1
            /\ \A k \in 1..Len(cells) : cells[k].row \in 0..Len(table_data)
            /\ \A r \in 0..Len(table_data), c \in 0..(Len(headers) - 1) :
                  /\ Cardinality(WritesAt(r, c)) = 1
                  /\ r = 0 => \A k \in WritesAt(r, c) : cells[k].value = JStr(headers[c + 1])
            /\ \A i \in 1..Len(table_data) :
                  \A k \in WritesAt(i, 1) : cells[k].value = JStr(table_data[i].task))

\* a single-pipeline document gave two records: the header is at row 0, A1 at
\* row 1, A2 at row 2, and the cursor ended at 3
C25_Witness ==
    /\ ~IsEnvelope(doc) /\ pc = "done"
    /\ Len(table_data) = 2 /\ offset = 3
    /\ \E k \in WritesAt(0, 1) : cells[k].value = JStr("Task Name")
    /\ \E k \in WritesAt(1, 1) : cells[k].value = JStr("A1")
    /\ \E k \in WritesAt(2, 1) : cells[k].value = JStr("A2")

-----------------------------------------------------------------------------
(* The resolver on its own: a caller holds an instruction dictionary and   *)
(* asks for the format of one cell after another.                          *)

MaxResolveCalls == 2
MaxIndex == 1

StyleValues == {"red", "blue"}
StyleFieldsUsed == {"text_color", "bg_color"}

\* the StyleSpec dictionaries over the fields used, {} included
StyleChoices == UNION { [D -> StyleValues] : D \in SUBSET StyleFieldsUsed }

\* a tier with no entry, or with one entry under key
TierChoices(key) == {<<>>} \cup { key :> st : st \in StyleChoices }

KeyOf(kind, n) == IF kind = "int" THEN IntKey(n) ELSE StrKey(ToString(n))

\* dictionaries with at most one entry per tier, at row 0, column 1 and cell (0, 1),
\* keyed by str as the program's own callers key them, or by int as in the docstring
InstructionChoices ==
    UNION { [row : TierChoices(KeyOf(kind, 0)),
             column : TierChoices(KeyOf(kind, 1)),
             cell : TierChoices(<<KeyOf(kind, 0), KeyOf(kind, 1)>>)] : kind \in {"str", "int"} }

Idle ==
    /\ doc = JObj(<<>>)
    /\ pc = "idle"
    /\ FreshExtractor

InitResolve ==
    /\ Idle
    /\ FreshWriter
    /\ instructions \in InstructionChoices
    /\ ncalls = 0
    /\ last = NoCall

\* one call ExcelUtils._convert_instructions_to_formats(instructions, row_idx, col_idx)
Resolve ==
    /\ ncalls < MaxResolveCalls
    /\ \E row_idx \in 0..MaxIndex, col_idx \in 0..MaxIndex :
          LET r == convert_instructions_to_formats(instructions, row_idx, col_idx)
          IN  /\ instructions' = r.caller
              /\ last' = [op |-> "resolve", instr |-> instructions, row |-> row_idx,
                          col |-> col_idx, fmt |-> r.fmt]
    /\ ncalls' = ncalls + 1
    /\ UNCHANGED <<doc, pc, res_idx, stack, pipeline_name_flag, pipeline_name, table_data, j,
                   writerVars>>
    /\ UNCHANGED xl_rows

NextResolve == Resolve

SpecResolve == InitResolve /\ [][NextResolve]_vars

\* the entries the last call's coordinates address in the instructions it was given
RowEntry == Entry(last.instr.row, StrKey(ToString(last.row)))
ColumnEntry == Entry(last.instr.column, StrKey(ToString(last.col)))
CellEntry == Entry(last.instr.cell, <<StrKey(ToString(last.row)), StrKey(ToString(last.col))>>)

\* C6: when the row, column and cell entries for (R, C) all define a field,
\* resolve returns the cell entry's value for it; when only the row and the
\* column entries define it, the column entry's value.
C6_CellOverColumnOverRow ==
    last.op = "resolve" =>
        \A f \in FormatterFields :
            /\ f \in DOMAIN RowEntry /\ f \in DOMAIN ColumnEntry /\ f \in DOMAIN CellEntry
                  => last.fmt[f] = <<CellEntry[f]>>
            /\ f \in DOMAIN RowEntry /\ f \in DOMAIN ColumnEntry /\ f \notin DOMAIN CellEntry
                  => last.fmt[f] = <<ColumnEntry[f]>>

\* all three tiers define text_color, with three different outcomes possible
C6_Witness ==
    /\ last.op = "resolve"
    /\ "text_color" \in DOMAIN RowEntry /\ RowEntry["text_color"] = "red"
    /\ "text_color" \in DOMAIN ColumnEntry /\ ColumnEntry["text_color"] = "red"
    /\ "text_color" \in DOMAIN CellEntry /\ CellEntry["text_color"] = "blue"
    /\ last.fmt["text_color"] = <<"blue">>
    /\ "bg_color" \in DOMAIN RowEntry /\ RowEntry["bg_color"] = "red"
    /\ "bg_color" \in DOMAIN ColumnEntry /\ ColumnEntry["bg_color"] = "blue"
    /\ "bg_color" \notin DOMAIN CellEntry
    /\ last.fmt["bg_color"] = <<"blue">>

\* C7: with only a row-tier entry at row R (no column and no cell entries),
\* resolve at (R, c) returns exactly that entry's fields, whatever the column c.
C7_RowOnly ==
    /\ last.op = "resolve"
    /\ last.instr.column = <<>> /\ last.instr.cell = <<>>
    /\ StrKey(ToString(last.row)) \in DOMAIN last.instr.row
    => \A f \in FormatterFields :
          last.fmt[f] = IF f \in DOMAIN RowEntry THEN <<RowEntry[f]>> ELSE <<>>

C7_Witness ==
    /\ last.op = "resolve" /\ last.col = 1
    /\ last.instr.column = <<>> /\ last.instr.cell = <<>>
    /\ DOMAIN RowEntry = {"bg_color"}
    /\ last.fmt["bg_color"] = <<"red">> /\ last.fmt["text_color"] = <<>>

\* the reference merge, field by field: the value of the highest tier that
\* defines the field, None when no tier does
ReferenceMerge(rowE, colE, cellE) ==
    [f \in FormatterFields |->
        IF f \in DOMAIN cellE THEN <<cellE[f]>>
        ELSE IF f \in DOMAIN colE THEN <<colE[f]>>
        ELSE IF f \in DOMAIN rowE THEN <<rowE[f]>>
        ELSE <<>>]

\* C20: whichever of the row, column and cell entries for (R, C) are present,
\* resolve returns the merge that starts from the row entry (or nothing),
\* overlays the column entry and then the cell entry; with no entry present it
\* returns the style with every field at its default.
C20_AdditiveOverrideMerge ==
    last.op = "resolve" =>
        /\ last.fmt = ReferenceMerge(RowEntry, ColumnEntry, CellEntry)
        /\ RowEntry = <<>> /\ ColumnEntry = <<>> /\ CellEntry = <<>>
              => \A f \in FormatterFields : last.fmt[f] = None

\* no row entry, a column entry with both fields and a cell entry with one:
\* the cell's field replaces the column's, the column's other field is kept
C20_Witness ==
    /\ last.op = "resolve"
    /\ RowEntry = <<>>
    /\ DOMAIN ColumnEntry = {"text_color", "bg_color"}
    /\ ColumnEntry["text_color"] = "red" /\ ColumnEntry["bg_color"] = "red"
    /\ DOMAIN CellEntry = {"text_color"} /\ CellEntry["text_color"] = "blue"
    /\ last.fmt["text_color"] = <<"blue">> /\ last.fmt["bg_color"] = <<"red">>

\* C8: instructions keyed as in the docstring -- rows and columns by the int
\* index, cells by the pair of ints -- are matched by resolve at those
\* coordinates, and their fields appear in the returned style.
C8_IntKeysMatched ==
    last.op = "resolve" =>
        \A f \in FormatterFields :
            /\ IntKey(last.row) \in DOMAIN last.instr.row
                /\ f \in DOMAIN last.instr.row[IntKey(last.row)]
                  => last.fmt[f] # None
            /\ IntKey(last.col) \in DOMAIN last.instr.column
                /\ f \in DOMAIN last.instr.column[IntKey(last.col)]
                  => last.fmt[f] # None
            /\ <<IntKey(last.row), IntKey(last.col)>> \in DOMAIN last.instr.cell
                /\ f \in DOMAIN last.instr.cell[<<IntKey(last.row), IntKey(last.col)>>]
                  => last.fmt[f] # None

\* C9: no call of the resolver changes the caller's instruction dictionary.
C9_InstructionsNotMutated == [][instructions' = instructions]_vars

\* two calls were made, the last one merging into the row entry of its copy
C9_Witness ==
    /\ last.op = "resolve" /\ ncalls = 2
    /\ MergeTiers(last.instr, StrKey(ToString(last.row)), StrKey(ToString(last.col))).written
          # last.instr
    /\ instructions = last.instr

-----------------------------------------------------------------------------
(* The writer on its own: any sequence of calls on one ExcelUtils instance. *)

MaxCalls == 3

\* instructions with an entry in every tier
SampleInstructions ==
    [row |-> StrKey("1") :> [bg_color |-> "red"],
     column |-> StrKey("0") :> [text_color |-> "blue"],
     cell |-> <<StrKey("2"), StrKey("0")>> :> [bg_color |-> "blue"]]

FlatRow == <<JStr("a"), JNum(1)>>
NestedRows == <<JList(<<JStr("a"), JStr("b")>>), JList(<<JStr("c")>>)>>

\* the `values` of write_row: nothing, a flat row, nested lists of one and two
\* rows, and a nested list whose second element is no row
WriteRowValues ==
    { <<>>, FlatRow, <<JList(<<JStr("a")>>)>>, NestedRows, <<JList(<<JStr("a")>>), JNum(3)>> }

OffsetChoices == {None, Some(0), Some(5)}

\* the `values` and `separate_headers` of create_new / create_new_sheet
SheetValues == { <<>>, NestedRows }
HeaderChoices == { <<>>, <<"H1", "H2">> }

InitWriter ==
    /\ Idle
    /\ FreshWriter
    /\ instructions = SampleInstructions
    /\ ncalls = 0
    /\ last = NoCall

\* ExcelUtils.create_new(path, values, overwrite, 'Sheet1', separate_headers, instructions);
\* blocked: a file exists at path and overwrite is False
CallCreateNew ==
    /\ ncalls < MaxCalls
    /\ \E values \in SheetValues, separate_headers \in HeaderChoices, blocked \in BOOLEAN :
          IF blocked
          THEN /\ last' = [op |-> "create_new", raised |-> TRUE, writes |-> <<>>, ret |-> None,
                           before |-> offset, values |-> values, headers |-> separate_headers]
               /\ UNCHANGED writerVars
          ELSE LET sheet == IF current_sheet = 0 THEN sheets + 1 ELSE current_sheet
                   r == sheet_rows(values, separate_headers, instructions, sheet)
               IN  /\ workbook' = "open"
                   /\ current_sheet' = sheet
                   /\ sheets' = IF current_sheet = 0 THEN sheets + 1 ELSE sheets
                   /\ cells' = cells \o r.writes
                   /\ offset' = IF r.raised THEN offset ELSE r.offset
                   /\ last' = [op |-> "create_new", raised |-> r.raised, writes |-> r.writes,
                               ret |-> IF r.raised THEN None ELSE Some(r.offset),
                               before |-> offset, values |-> values,
                               headers |-> separate_headers]
    /\ ncalls' = ncalls + 1
    /\ UNCHANGED <<doc, pc, res_idx, stack, pipeline_name_flag, pipeline_name, table_data, j,
                   instructions>>
    /\ UNCHANGED xl_rows

\* ExcelUtils.create_new_sheet(values, separate_headers, 'Sheet2', True, instructions)
CallCreateNewSheet ==
    /\ ncalls < MaxCalls
    /\ \E values \in SheetValues, separate_headers \in HeaderChoices :
          IF workbook # "open"
          THEN /\ last' = [op |-> "create_new_sheet", raised |-> TRUE, writes |-> <<>>,
                           ret |-> None, before |-> offset, values |-> values,
                           headers |-> separate_headers]
               /\ UNCHANGED writerVars
          ELSE LET r == sheet_rows(values, separate_headers, instructions, sheets + 1)
               IN  /\ current_sheet' = sheets + 1
                   /\ sheets' = sheets + 1
                   /\ cells' = cells \o r.writes
                   /\ offset' = IF r.raised THEN offset ELSE r.offset
                   /\ last' = [op |-> "create_new_sheet", raised |-> r.raised,
                               writes |-> r.writes,
                               ret |-> IF r.raised THEN None ELSE Some(r.offset),
                               before |-> offset, values |-> values,
                               headers |-> separate_headers]
                   /\ UNCHANGED workbook
    /\ ncalls' = ncalls + 1
    /\ UNCHANGED <<doc, pc, res_idx, stack, pipeline_name_flag, pipeline_name, table_data, j,
                   instructions>>
    /\ UNCHANGED xl_rows

\* ExcelUtils.write_row(values, offset, instructions)
CallWriteRow ==
    /\ ncalls < MaxCalls
    /\ \E values \in WriteRowValues, offArg \in OffsetChoices :
          LET r == write_row(values, offArg, instructions, offset, current_sheet)
          IN  /\ cells' = cells \o r.writes
              /\ offset' = r.offset
              /\ last' = [op |-> "write_row", raised |-> r.raised, writes |-> r.writes,
                          ret |-> r.ret, before |-> offset, values |-> values,
                          offArg |-> offArg]
    /\ ncalls' = ncalls + 1
    /\ UNCHANGED <<doc, pc, res_idx, stack, pipeline_name_flag, pipeline_name, table_data, j,
                   workbook, current_sheet, sheets, instructions>>
    /\ UNCHANGED xl_rows

\* ExcelUtils.close_workbook()
CallCloseWorkbook ==
    /\ ncalls < MaxCalls
    /\ workbook' = IF workbook = "open" THEN "closed" ELSE workbook
    /\ current_sheet' = 0
    /\ last' = [op |-> "close_workbook", raised |-> FALSE]
    /\ ncalls' = ncalls + 1
    /\ UNCHANGED <<doc, pc, res_idx, stack, pipeline_name_flag, pipeline_name, table_data, j,
                   sheets, offset, cells, instructions>>
    /\ xl_rows' = None

NextWriter ==
    \/ CallCreateNew
    \/ CallCreateNewSheet
    \/ CallWriteRow
    \/ CallCloseWorkbook

SpecWriter == InitWriter /\ [][NextWriter]_vars

\* the rows a write_row call is given: 1 for a flat row, N for a nested list of N rows
RowCount(values) ==
    IF Len(values) = 0 THEN 0
    ELSE IF values[1].t = "list" THEN Len(values)
    ELSE 1

\* the step is a write_row call without an explicit offset that returned
WriteRowNoOffset ==
    /\ ncalls' = ncalls + 1
    /\ last'.op = "write_row" /\ last'.offArg = None /\ ~last'.raised

\* C10: every write_row call without an explicit offset starts writing at the
\* cursor and advances the cursor by the number of rows written -- so a sequence
\* of such calls advances it by the total, and the next call starts at that total.
C10_CursorAdvancesByRowsWritten ==
    [][ WriteRowNoOffset =>
          /\ offset' = offset + RowCount(last'.values)
          /\ last'.ret = Some(offset')
          /\ \A k \in 1..Len(last'.writes) :
                last'.writes[k].row \in offset..(offset' - 1)
          /\ Len(last'.writes) > 0 => last'.writes[1].row = offset ]_vars

\* two calls without offset in a row, the second a nested list of two rows that
\* starts where the first left the cursor
C10_Witness ==
    /\ ncalls = 3
    /\ last.op = "write_row" /\ last.offArg = None /\ ~last.raised
    /\ last.values = NestedRows
    /\ last.before = 4
    /\ offset = 6
    /\ last.writes[1].row = 4 /\ last.writes[3].row = 5

\* the rows a create_new / create_new_sheet call writes: the header row, if any,
\* and one row per element of values
SheetRowCount(values, separate_headers) ==
    (IF Len(separate_headers) > 0 THEN 1 ELSE 0) + Len(values)

\* the last call was a create_new / create_new_sheet that returned
SheetCallReturned ==
    /\ last.op \in {"create_new", "create_new_sheet"}
    /\ ~last.raised

\* C11: create_new / create_new_sheet return, and leave in the cursor, the number
\* of rows actually written, header included -- so a header row with an empty
\* rows set writes the headers at row 0 and returns 1.
C11_ReturnsRowsWritten ==
    SheetCallReturned =>
        /\ last.ret = Some(SheetRowCount(last.values, last.headers))
        /\ offset = SheetRowCount(last.values, last.headers)
        /\ \A k \in 1..Len(last.headers) :
              /\ last.writes[k].row = 0
              /\ last.writes[k].value = JStr(last.headers[k])

\* C15 as stated: over any sequence of create_new, create_new_sheet and write_row
\* calls, with or without an explicit offset, the cursor never decreases.
C15_CursorNeverDecreases == [][offset' >= offset]_vars

\* C15, amended: a write_row call without an explicit offset never decreases the
\* cursor, whether it returns or raises; a write_row call with an explicit offset
\* sets the cursor to that offset plus the rows written, which may be lower (as
\* may the cursor create_new / create_new_sheet set for the sheet they fill).
C15_CursorNeverDecreasesOnAppend ==
    [][ (ncalls' = ncalls + 1 /\ last'.op = "write_row") =>
            /\ last'.offArg = None => offset' >= offset
            /\ (last'.offArg # None /\ ~last'.raised)
                  => offset' = last'.offArg[1] + RowCount(last'.values) ]_vars

\* a sheet of a header row and two rows was created and a flat row appended after
\* it without an offset: the cursor went from 3 to 4
C15_Witness ==
    /\ ncalls = 2
    /\ last.op = "write_row" /\ last.offArg = None /\ ~last.raised
    /\ last.values = FlatRow
    /\ last.before = 3 /\ offset = 4

\* C21: on every write path the style handed over with the cell written at
\* sheet coordinate (r, c) is resolve(instructions, r, c).
C21_StyleResolvedAtWrittenRow ==
    \A k \in 1..Len(cells) :
        cells[k].fmt = resolve(instructions, cells[k].row, cells[k].col)

-----------------------------------------------------------------------------
(* Reading: datetime.strptime as ExcelUtils.is_datetime calls it, is_datetime *)
(* and ExcelUtils.get_rows.                                                 *)

\* s[pos] for a 1-based pos, "" past the end
CharAt(s, pos) == IF pos \in 1..Len(s) THEN SubSeq(s, pos, pos) ELSE ""

\* the tokens of a format string: <<"%", d>> for the directive %d, <<"lit", c>> for
\* another character; a blank stands for a run of whitespace
RECURSIVE FormatTokens(_)
FormatTokens(fmt) ==
    IF Len(fmt) = 0 THEN <<>>
    ELSE IF CharAt(fmt, 1) = "%"
         THEN << <<"%", CharAt(fmt, 2)>> >> \o FormatTokens(SubSeq(fmt, 3, Len(fmt)))
         ELSE << <<"lit", CharAt(fmt, 1)>> >> \o FormatTokens(SubSeq(fmt, 2, Len(fmt)))

\* the regular expression of a directive: its alternatives in the order they are
\* tried, each a sequence of character classes
DirectivePattern(d) ==
    LET Digits == "0123456789"
        NonZeroDigits == "123456789"
    IN
    CASE d = "d" -> << <<"3", "01">>, <<"12", Digits>>, <<"0", NonZeroDigits>>,
                       <<NonZeroDigits>>, <<" ", NonZeroDigits>> >>
      [] d = "H" -> << <<"2", "0123">>, <<"01", Digits>>, <<Digits>> >>
      [] d \in {"I", "m"} -> << <<"1", "012">>, <<"0", NonZeroDigits>>, <<NonZeroDigits>> >>
      [] d = "M" -> << <<"012345", Digits>>, <<Digits>> >>
      [] d = "S" -> << <<"6", "01">>, <<"012345", Digits>>, <<Digits>> >>
      [] d = "Y" -> << <<Digits, Digits, Digits, Digits>> >>

\* the lengths a token can consume of s at pos, in the order they are tried: a
\* blank of the format takes a run of blanks, longest first; a literal character
\* takes itself, a letter in either case
Alternatives(tok, s, pos) ==
    LET blanks == CHOOSE n \in 0..Len(s) :
                      /\ \A i \in 0..(n - 1) : CharAt(s, pos + i) = " "
                      /\ CharAt(s, pos + n) # " "
        literal == << << IF tok[2] = "Z" THEN "Zz" ELSE tok[2] >> >>
        pat == IF tok[1] = "%" THEN DirectivePattern(tok[2]) ELSE literal
        AltMatches(alt) ==
            \A i \in 1..Len(alt) :
                /\ CharAt(s, pos + i - 1) # ""
                /\ Contains(alt[i], CharAt(s, pos + i - 1))
        ok == SelectSeq(pat, AltMatches)
    IN  IF tok = <<"lit", " ">>
        THEN [i \in 1..blanks |-> blanks - i + 1]
        ELSE [i \in 1..Len(ok) |-> Len(ok[i])]

\* int(text) for a text of digits, a leading blank ignored
RECURSIVE ToInt(_)
ToInt(text) ==
    IF Len(text) = 0 THEN 0
    ELSE LET c == CharAt(text, Len(text))
             rest == ToInt(SubSeq(text, 1, Len(text) - 1))
         IN  IF c = " " THEN rest
             ELSE 10 * rest + (CHOOSE n \in 0..9 : ToString(n) = c)

\* the first way, in the order the alternatives are tried, in which the tokens
\* from the k-th on match s from pos on: <<>> when there is none, else the
\* position after the match and the text each directive consumed
RECURSIVE MatchTokens(_, _, _, _, _), TryAlternatives(_, _, _, _, _, _, _)
MatchTokens(toks, k, s, pos, fields) ==
    IF k > Len(toks) THEN << [end |-> pos, fields |-> fields] >>
    ELSE TryAlternatives(toks, k, s, pos, fields, Alternatives(toks[k], s, pos), 1)

TryAlternatives(toks, k, s, pos, fields, alts, a) ==
    IF a > Len(alts) THEN <<>>
    ELSE LET text == SubSeq(s, pos, pos + alts[a] - 1)
             found == IF toks[k][1] = "%" THEN (toks[k][2] :> ToInt(text)) @@ fields
                      ELSE fields
             r == MatchTokens(toks, k + 1, s, pos + alts[a], found)
         IN  IF r # <<>> THEN r
             ELSE TryAlternatives(toks, k, s, pos, fields, alts, a + 1)

\* datetime.strptime(data_string, format): the datetime, or it raises ValueError
\* (no match, unconverted data remains, or no such date)
strptime(data_string, format) ==
    LET Field(fields, d, default) == IF d \in DOMAIN fields THEN fields[d] ELSE default
        IsLeap(y) == y % 4 = 0 /\ (y % 100 # 0 \/ y % 400 = 0)
        DaysInMonth(y, mo) ==
            IF mo = 2 THEN (IF IsLeap(y) THEN 29 ELSE 28)
            ELSE IF mo \in {4, 6, 9, 11} THEN 30 ELSE 31
        DateTime(year, month, day, hour, minute, second) ==
            IF year < 1 \/ day > DaysInMonth(year, month) \/ second > 59
            THEN [raised |-> TRUE]
            ELSE [raised |-> FALSE,
                  ret |-> [t |-> "datetime", year |-> year, month |-> month, day |-> day,
                           hour |-> hour, minute |-> minute, second |-> second]]
        Converted(f) ==
            DateTime(Field(f, "Y", 1900), Field(f, "m", 1), Field(f, "d", 1),
                     IF "I" \in DOMAIN f THEN f["I"] % 12 ELSE Field(f, "H", 0),
                     Field(f, "M", 0), Field(f, "S", 0))
        Matched(m) ==
            IF m = <<>> THEN [raised |-> TRUE]
            ELSE IF m[1].end # Len(data_string) + 1 THEN [raised |-> TRUE]
            ELSE Converted(m[1].fields)
    IN  Matched(MatchTokens(FormatTokens(format), 1, data_string, 1, <<>>))

accepted_formats ==
    << "%Y-%m-%d %H:%M:%SZ", "%m/%d/%Y %H:%M%SZ", "%Y-%m-%d", "%m/%d/%Y", "%m/%d", "%m-%d",
       "%m/%d/%Y %H:%M", "%m/%d/%Y %I:%M", "%Y-%m-%d %H:%M", "%Y-%m-%d %I:%M" >>

bad_formats == << "%m-%Y-%d", "%m-%Y", "%m-%Y-%d %H:%M" >>

\* the formats of a list that parse param
Parsing(formats, param) == {k \in 1..Len(formats) : ~strptime(param, formats[k]).raised}

\* ExcelUtils.is_datetime(param): the pair (is_datetime, datetime_obj)
is_datetime(param) ==
    LET FirstOf(accepted) ==
            IF accepted # {}
            THEN <<TRUE, strptime(param, accepted_formats[SetMin(accepted)]).ret>>
            ELSE IF Parsing(bad_formats, param) # {} THEN <<FALSE, JNull>>
            ELSE <<TRUE, JNull>>
    IN  FirstOf(Parsing(accepted_formats, param))

\* xlrd.xldate.xldate_as_datetime(cell_val, datemode): the datetime of a serial date
xldate_as_datetime(serial) == [t |-> "datetime", serial |-> serial]

\* get_rows lines 561-569: the value a date-flagged cell is replaced by, or it raises
SanitizeDate(cell_val) ==
    IF cell_val.t = "int" THEN [raised |-> FALSE, ret |-> xldate_as_datetime(cell_val.n)]
    ELSE IF cell_val = JNull \/ cell_val = JStr("") THEN [raised |-> FALSE, ret |-> JNull]
    ELSE IF cell_val.t = "str" THEN [raised |-> FALSE, ret |-> is_datetime(cell_val.s)[2]]
    ELSE [raised |-> TRUE, ret |-> JNull]

\* line 557: cell_val != filters[filter_idx]
FilterRejects(cell_val, filter) == cell_val # filter

\* get_rows lines 549-572 for one row: the cells are visited in order until one is
\* rejected by the filter at its position (disregard); the cells before it are
\* sanitized and collected
RowOutcome(row, filters, sanitize_dates) ==
    LET rejected == {c \in 1..Len(row) : c <= Len(filters) /\ FilterRejects(row[c], filters[c])}
        upto == IF rejected = {} THEN Len(row) ELSE SetMin(rejected) - 1
        cell(c) == IF (c - 1) \in sanitize_dates THEN SanitizeDate(row[c])
                   ELSE [raised |-> FALSE, ret |-> row[c]]
        Collected(visited) ==
            [raised |-> \E c \in 1..Len(visited) : visited[c].raised,
             keep |-> rejected = {} /\ Len(row) > 0,
             row_values |-> [c \in 1..Len(visited) |-> visited[c].ret]]
    IN  Collected([c \in 1..upto |-> cell(c)])

\* ExcelUtils.get_rows(filters, grab_headers, sanitize_dates) on the sheet xl
\* (None when current_sheet is None).  filters <<>> and sanitize_dates {} stand
\* for None or an empty list.  With grab_headers and no filters `rows` is the
\* generator of current_sheet.get_rows(), which has no append.
get_rows(filters, grab_headers, sanitize_dates, xl) ==
    LET sheet == xl[1]
        start == IF grab_headers THEN 1 ELSE 2
        generator == grab_headers /\ Len(filters) = 0
        Kept(outs) == SelectSeq(outs, LAMBDA o : o.keep)
        Rows(kept) == JList([i \in 1..Len(kept) |-> JList(kept[i].row_values)])
        Result(outs) ==
            IF \E i \in 1..Len(outs) : outs[i].raised \/ (generator /\ outs[i].keep)
            THEN [raised |-> TRUE]
            ELSE [raised |-> FALSE,
                  ret |-> IF generator THEN [t |-> "generator", rows |-> sheet]
                          ELSE Rows(Kept(outs))]
    IN  IF xl = None THEN [raised |-> TRUE]
        ELSE Result([i \in 1..(Len(sheet) - start + 1) |->
                        RowOutcome(sheet[start + i - 1], filters, sanitize_dates)])

-----------------------------------------------------------------------------
(* The reader on its own: read_file and get_rows calls on one ExcelUtils   *)
(* instance, on a workbook file with several sheets.                       *)

MaxReads == 2

\* the values of a date column: strings in an accepted format, in a known-bad
\* format, in neither, no date of the calendar, a serial date, an empty cell
DateValues ==
    << JStr("2020-01-15"), JStr("1/31"), JStr("12/01/2020 10:30"), JStr("01-2020"),
       JStr("abc"), JStr("2020-02-30"), JNum(43845), JStr("") >>

\* the sheets of the workbook file, in order: a header row and two data rows;
\* a sheet with one data row for each value of the date column; one with two
\* dated rows; an empty sheet
Book ==
    LET StrRow(texts) == [i \in 1..Len(texts) |-> JStr(texts[i])]
    IN  << << StrRow(<<"h1", "h2">>), StrRow(<<"x", "B">>), StrRow(<<"x", "C">>) >> >>
        \o [i \in 1..Len(DateValues) |->
                << StrRow(<<"id", "when">>), <<JStr("r1"), DateValues[i]>> >>]
        \o << << StrRow(<<"id", "when">>), <<JStr("r1"), JStr("01-2020")>>,
                 <<JStr("r2"), JStr("2020-01-15")>> >>,
              <<>> >>

\* the `filters` arguments: <<>> is None
FilterChoices ==
    { <<>>, <<JNull, JStr("B")>>, <<JStr("x")>>, <<JStr("x"), JStr("C")>>, <<JNull>>,
      <<JStr("r1")>> }

InitReader ==
    /\ Idle
    /\ FreshWriter
    /\ instructions = NoInstructions
    /\ ncalls = 0
    /\ last = NoCall

\* ExcelUtils.read_file(path, None, sheet): has_path says whether a path is given;
\* sheet 0 stands for None, else it is the number of the sheet named,
\* Len(Book) + 1 for a name the workbook does not have
CallReadFile ==
    /\ ncalls < MaxReads
    /\ \E has_path \in BOOLEAN, sheet \in 0..(Len(Book) + 1) :
          IF ~has_path
          THEN /\ last' = [op |-> "read_file", raised |-> TRUE]
               /\ UNCHANGED <<workbook, current_sheet, xl_rows>>
          ELSE /\ workbook' = "open"
               /\ IF sheet > Len(Book)
                  THEN /\ last' = [op |-> "read_file", raised |-> TRUE]
                       /\ UNCHANGED <<current_sheet, xl_rows>>
                  ELSE LET n == IF sheet = 0 THEN 1 ELSE sheet
                       IN  /\ current_sheet' = n
                           /\ xl_rows' = Some(Book[n])
                           /\ last' = [op |-> "read_file", raised |-> FALSE,
                                       ret |-> Len(Book[n])]
    /\ ncalls' = ncalls + 1
    /\ UNCHANGED <<doc, pc, res_idx, stack, pipeline_name_flag, pipeline_name, table_data, j,
                   sheets, offset, cells, instructions>>

\* ExcelUtils.get_rows(filters, grab_headers, sanitize_dates)
CallGetRows ==
    /\ ncalls < MaxReads
    /\ \E filters \in FilterChoices, grab_headers \in BOOLEAN,
          sanitize_dates \in { {}, {1} } :
          LET r == get_rows(filters, grab_headers, sanitize_dates, xl_rows)
          IN  last' = [op |-> "get_rows", filters |-> filters, grab_headers |-> grab_headers,
                       sanitize_dates |-> sanitize_dates, raised |-> r.raised,
                       ret |-> IF r.raised THEN JNull ELSE r.ret]
    /\ ncalls' = ncalls + 1
    /\ UNCHANGED <<doc, pc, res_idx, stack, pipeline_name_flag, pipeline_name, table_data, j,
                   writerVars, instructions, xl_rows>>

NextReader ==
    \/ CallReadFile
    \/ CallGetRows

SpecReader == InitReader /\ [][NextReader]_vars

\* the last call was a get_rows on a sheet that skipped the header row
GetRowsOnData == last.op = "get_rows" /\ xl_rows # None /\ ~last.grab_headers

\* the data rows of the sheet
DataRows == SubSeq(xl_rows[1], 2, Len(xl_rows[1]))

\* no supplied (non-null) filter position differs from the row's cell there
PassesFilters(row, filters) ==
    \A c \in 1..Len(filters) : filters[c] # JNull => (c <= Len(row) /\ row[c] = filters[c])

\* C12: get_rows with a positional filter list, header skipped, returns exactly the
\* rows that differ from no supplied filter position, a null position excluding
\* nothing -- [null, "B"] on [["x","B"],["x","C"]] returns only the first row.
C12_PositionalFilters ==
    (GetRowsOnData /\ last.sanitize_dates = {}) =>
        LET kept == SelectSeq(DataRows, LAMBDA row : PassesFilters(row, last.filters))
        IN  /\ ~last.raised
            /\ last.ret = JList([i \in 1..Len(kept) |-> JList(kept[i])])

\* a non-empty string that parses in no accepted format; in a known-bad one or not
NoAcceptedFormat(v) == v.t = "str" /\ v.s # "" /\ Parsing(accepted_formats, v.s) = {}
KnownBad(v) == NoAcceptedFormat(v) /\ Parsing(bad_formats, v.s) # {}

\* C16: get_rows with a date-flagged column raises when a value of that column is
\* neither a serial date nor a string in an accepted format, unless the string
\* matches a known-bad format, which is returned as None without raising.
C16_UnparseableDateRaises ==
    (GetRowsOnData /\ last.filters = <<>> /\ last.sanitize_dates = {1}) =>
        /\ (\E r \in 1..Len(DataRows) : NoAcceptedFormat(DataRows[r][2]) /\ ~KnownBad(DataRows[r][2]))
              => last.raised
        /\ (\A r \in 1..Len(DataRows) : NoAcceptedFormat(DataRows[r][2]) => KnownBad(DataRows[r][2]))
              => /\ ~last.raised
                 /\ \A r \in 1..Len(DataRows) :
                       KnownBad(DataRows[r][2]) => last.ret.items[r].items[2] = JNull

====
